---- MODULE Spec2Model ----
(***************************************************************************)
(* KPI / Insight bot: the database tools (db_tools, db_shared) and the     *)
(* three suspend/resume workflows (kpi-creation-workflow,                  *)
(* simple-kpi-workflow, insight-generation-workflow) as a state machine.   *)
(*                                                                         *)
(* Representation of JavaScript / SQL values                               *)
(*   string             a sequence of tokens; <<>> is the empty string ''  *)
(*   optional / nullable  a set with at most one element; {} is            *)
(*                      undefined / null / SQL NULL                        *)
(*   array              a sequence                                         *)
(***************************************************************************)
EXTENDS Integers, Sequences, FiniteSets, TLC

VARIABLES
    kpi,            \* table kpi: a set of rows
    insight,        \* table insight: rows in order of insertion
    insight_id_seq, \* the SERIAL sequence behind insight.id
    wf,             \* workflow of the current run: "none", "kpi", "simple", "insight"
    step,           \* position of the run in the workflow's step list
    status,         \* "idle", "running", "suspended", "success", "failed"
    inputData,      \* input of the current step (output of the previous one)
    resumeData,     \* resume payload the current step was last executed with
    suspendPayload, \* payload of the pending suspend
    result,         \* output of the last step of a completed run
    error,          \* error that failed the run
    calls,          \* tool invocations of the current run (or agent turn), in order
    resumed,        \* per step, the resume payload last supplied in this run
    kpiAtStart,     \* table kpi before the current run (or direct tool call)
    insightAtStart, \* table insight before the current run (or direct tool call)
    catalog,        \* per table (kpi, insight) its columns; <<>> when it does not exist
    exitCode,       \* exit code of the init-db process, once it has exited
    log,            \* console lines of the entrypoint that ran last
    mastra,         \* the Mastra instance is constructed and exported
    other           \* a second run, of simple-kpi-workflow, on the same pool

dbvars == <<kpi, insight, insight_id_seq>>
wfvars == <<wf, step, status, inputData, resumeData, suspendPayload, result,
            error, resumed, kpiAtStart, insightAtStart, other>>
sysvars == <<catalog, exitCode, log, mastra>>
vars == <<kpi, insight, insight_id_seq, wf, step, status, inputData,
          resumeData, suspendPayload, result, error, calls, resumed,
          kpiAtStart, insightAtStart, catalog, exitCode, log, mastra, other>>

----------------------------------------------------------------------------
(* Bounds *)

MaxSel == 2         \* longest index array the external actor supplies
MaxInsights == 2    \* insight ids handed out before direct save-insight calls stop

----------------------------------------------------------------------------
(* JavaScript values *)

None == {}
Some(v) == {v}
Get(o) == CHOOSE v \in o : TRUE

\* JS truthiness of an optional string: undefined, null and '' are falsy
Truthy(o) == \E v \in o : v # <<>>

\* `x || null`
OrNull(o) == IF Truthy(o) THEN o ELSE None

\* `a || b` with b a string
OrElse(o, b) == IF Truthy(o) THEN Get(o) ELSE b

W(t) == <<t>>
Dot == "."
Space == " "
Semi == ";"

Includes(s, t) == \E i \in 1..Len(s) : s[i] = t

FirstIndex(s, t) == CHOOSE i \in 1..Len(s) : s[i] = t /\ \A j \in 1..(i-1) : s[j] # t

\* String.prototype.split(t)
RECURSIVE Split(_, _)
Split(s, t) ==
    IF ~Includes(s, t) THEN <<s>>
    ELSE LET i == FirstIndex(s, t)
         IN  <<SubSeq(s, 1, i - 1)>> \o Split(SubSeq(s, i + 1, Len(s)), t)

\* Array.prototype.join(t)
RECURSIVE Join(_, _)
Join(a, t) ==
    IF a = <<>> THEN <<>>
    ELSE IF Len(a) = 1 THEN a[1]
    ELSE a[1] \o t \o Join(Tail(a), t)

IsSpace(t) == t \in {" ", "\n", "\t"}

\* String.prototype.trim()
RECURSIVE TrimStart(_)
TrimStart(s) == IF s # <<>> /\ IsSpace(Head(s)) THEN TrimStart(Tail(s)) ELSE s

RECURSIVE TrimEnd(_)
TrimEnd(s) ==
    IF s # <<>> /\ IsSpace(s[Len(s)]) THEN TrimEnd(SubSeq(s, 1, Len(s) - 1)) ELSE s

Trim(s) == TrimEnd(TrimStart(s))

\* variant: s.replace(/;+$/, ''), every trailing ';' is removed
RECURSIVE StripAllSemi(_)
StripAllSemi(s) ==
    IF s # <<>> /\ s[Len(s)] = Semi THEN StripAllSemi(SubSeq(s, 1, Len(s) - 1)) ELSE s

\* s.replace(/;$/, '')
StripSemi(s) ==
    IF s # <<>> /\ s[Len(s)] = Semi THEN SubSeq(s, 1, Len(s) - 1) ELSE s

\* sequences over S of length at most n
SeqsUpTo(S, n) == UNION {[1..k -> S] : k \in 0..n}

----------------------------------------------------------------------------
(* The database *)

DefaultLimit == 5

DB == [kpi |-> kpi, insight |-> insight, insight_id_seq |-> insight_id_seq]

Col(name, type) == [column_name |-> W(name), data_type |-> W(type)]

\* information_schema after ensureTables, with one user table public.sales
InformationSchema ==
    << [table_schema |-> W("public"), table_name |-> W("insight"),
        columns |-> << Col("id", "integer"), Col("name", "text"),
                       Col("description", "text"), Col("kpi_name", "text"),
                       Col("formula", "text"), Col("schedule", "text"),
                       Col("exec_time", "text"), Col("alert_high", "numeric"),
                       Col("alert_low", "numeric"),
                       Col("created_at", "timestamp with time zone") >>],
       [table_schema |-> W("public"), table_name |-> W("kpi"),
        columns |-> << Col("name", "text"), Col("description", "text"),
                       Col("formula", "text"), Col("table_name", "text"),
                       Col("columns", "jsonb"),
                       Col("created_at", "timestamp with time zone") >>],
       [table_schema |-> W("public"), table_name |-> W("sales"),
        columns |-> << Col("id", "integer"), Col("amount", "numeric") >>] >>

\* rows of public.sales
Sales == << [amount |-> 10], [amount |-> 20], [amount |-> 30], [amount |-> 40],
            [amount |-> 50], [amount |-> 60], [amount |-> 70] >>

\* SQL statements the engine knows, each one token of SQL text
SelectSales == "SELECT amount FROM public.sales"
InsertCte == "WITH i AS (INSERT INTO kpi (name, formula) VALUES ('k2', 'x') ON CONFLICT (name) DO NOTHING RETURNING *) SELECT * FROM i"
DeleteCte == "WITH d AS (DELETE FROM kpi RETURNING *) SELECT * FROM d"
DeleteK1Cte == "WITH d AS (DELETE FROM kpi WHERE name = 'k1' RETURNING *) SELECT * FROM d"
UpdateKpi == "UPDATE kpi SET description = NULL"
Garbage == "SELEC amount"

\* a line comment: it runs to the end of the line
Comment == "-- all rows"

\* collation order of the KPI names in use
NameOrder == << <<>>, W("k1"), W("k2") >>

\* list-tables
ListTablesTool ==
    [tables |-> [i \in 1..Len(InformationSchema) |->
                    InformationSchema[i].table_schema \o W(Dot)
                        \o InformationSchema[i].table_name]]

\* list-columns
ListColumnsTool(context) ==
    LET parts == Split(context.table, Dot)
        schema == IF Includes(context.table, Dot) THEN parts[1] ELSE W("public")
        tableName == IF Includes(context.table, Dot) THEN parts[2] ELSE context.table
        Match(t) == t.table_schema = schema /\ t.table_name = tableName
        found == SelectSeq(InformationSchema, Match)
    IN  [columns |-> IF found = <<>> THEN <<>> ELSE found[1].columns]

Take(rows, n) == SubSeq(rows, 1, IF n < Len(rows) THEN n ELSE Len(rows))

\* ORDER BY name
RECURSIVE OrderByName(_, _)
OrderByName(rows, names) ==
    IF names = <<>> THEN <<>>
    ELSE (IF \E r \in rows : r.name = Head(names)
          THEN <<CHOOSE r \in rows : r.name = Head(names)>> ELSE <<>>)
         \o OrderByName(rows, Tail(names))

\* variant: kpi_name ... REFERENCES kpi(name) ON DELETE CASCADE
OnDeleteCascade(ins, deleted) ==
    SelectSeq(ins, LAMBDA r : ~\E n \in r.kpi_name : n \in deleted)

\* kpi_name ... REFERENCES kpi(name) ON DELETE SET NULL
OnDeleteSetNull(ins, deleted) ==
    [i \in 1..Len(ins) |->
        IF \E n \in ins[i].kpi_name : n \in deleted
        THEN [ins[i] EXCEPT !.kpi_name = None] ELSE ins[i]]

\* the row limits the engine is asked for
Limits == 0..(DefaultLimit * 2)

\* the text without its line comments
RECURSIVE StripComments(_)
StripComments(s) ==
    IF ~Includes(s, Comment) THEN s
    ELSE LET i == FirstIndex(s, Comment)
             rest == SubSeq(s, i + 1, Len(s))
         IN  SubSeq(s, 1, i - 1)
             \o (IF Includes(rest, "\n")
                 THEN StripComments(SubSeq(rest, FirstIndex(rest, "\n"), Len(rest)))
                 ELSE <<>>)

\* the LIMIT clauses that follow the statement: their row counts, in order;
\* ok is FALSE when what follows the statement is something else
RECURSIVE LimitClauses(_)
LimitClauses(s) ==
    IF s = <<>> THEN [ok |-> TRUE, limits |-> <<>>]
    ELSE IF /\ Len(s) >= 4
            /\ SubSeq(s, 1, 3) = <<Space, "LIMIT", Space>>
            /\ \E k \in Limits : ToString(k) = s[4]
    THEN LET rest == LimitClauses(SubSeq(s, 5, Len(s)))
         IN  [ok |-> rest.ok,
              limits |-> <<CHOOSE k \in Limits : ToString(k) = s[4]>> \o rest.limits]
    ELSE [ok |-> FALSE, limits |-> <<>>]

\* pool.query(text): the engine parses the text (comments are white space, a
\* final ';' ends the statement) and runs it; ok is FALSE when the engine
\* rejects the text: an unknown statement, a second statement that does not
\* parse, a LIMIT clause on a statement that returns no rows, or more than
\* one LIMIT clause
Engine(sql, db) ==
    LET text == TrimEnd(StripSemi(Trim(StripComments(sql))))
        clauses == IF text = <<>> THEN [ok |-> FALSE, limits |-> <<>>]
                   ELSE LimitClauses(Tail(text))
        Limited(rows) == IF clauses.limits = <<>> THEN rows
                         ELSE Take(rows, clauses.limits[1])
        reject == [ok |-> FALSE, rows |-> <<>>, db |-> db]
    IN  IF text = <<>> \/ ~clauses.ok \/ Len(clauses.limits) > 1 THEN reject
        ELSE IF text[1] = SelectSales
             THEN [ok |-> TRUE, rows |-> Limited(Sales), db |-> db]
        ELSE IF text[1] = InsertCte
             THEN IF \E r \in db.kpi : r.name = W("k2")
                  THEN [ok |-> TRUE, rows |-> <<>>, db |-> db]
                  ELSE LET row == [name |-> W("k2"), description |-> None,
                                   formula |-> Some(W("x")), table_name |-> None,
                                   columns |-> None]
                       IN  [ok |-> TRUE, rows |-> Limited(<<row>>),
                            db |-> [db EXCEPT !.kpi = @ \cup {row}]]
        ELSE IF text[1] = DeleteCte
             THEN [ok |-> TRUE,
                   rows |-> Limited(OrderByName(db.kpi, NameOrder)),
                   db |-> [db EXCEPT !.kpi = {},
                                     !.insight = OnDeleteSetNull(@,
                                         {r.name : r \in db.kpi})]]
        ELSE IF text[1] = DeleteK1Cte
             THEN [ok |-> TRUE,
                   rows |-> Limited(OrderByName({r \in db.kpi : r.name = W("k1")},
                                                NameOrder)),
                   db |-> [db EXCEPT !.kpi = {r \in @ : r.name # W("k1")},
                                     !.insight = OnDeleteSetNull(@, {W("k1")})]]
        ELSE IF text[1] = UpdateKpi /\ clauses.limits = <<>>
             THEN [ok |-> TRUE, rows |-> <<>>,
                   db |-> [db EXCEPT !.kpi =
                              {[r EXCEPT !.description = None] : r \in @}]]
        ELSE reject

LimitedSql(sql, limit) ==
    StripSemi(Trim(sql)) \o <<Space, "LIMIT", Space, ToString(limit), Semi>>

\* run-query
RunQueryTool(context, db) ==
    LET limitedSql == LimitedSql(context.sql, context.limit)
        res == Engine(limitedSql, db)
    IN  [ok |-> res.ok, rows |-> res.rows, db |-> res.db, sent |-> limitedSql]

\* runQuery of db_shared
RunQuery(sql, sample, db) ==
    LET limitedSql == LimitedSql(sql, sample)
        res == Engine(limitedSql, db)
    IN  [ok |-> res.ok, rows |-> res.rows, db |-> res.db, sent |-> limitedSql]

Quote == "\""
Backslash == "\\"

\* the escaping JSON.stringify gives a string: '"' and '\' get a backslash
RECURSIVE EscapeJson(_)
EscapeJson(s) ==
    IF s = <<>> THEN <<>>
    ELSE (IF Head(s) = Quote \/ Head(s) = Backslash
          THEN <<Backslash, Head(s)>> ELSE <<Head(s)>>) \o EscapeJson(Tail(s))

\* variant: strings are written between quotes as they are
JSONStringifyNoEscape(a) ==
    <<"[">> \o Join([i \in 1..Len(a) |-> <<Quote>> \o a[i] \o <<Quote>>], <<",">>)
          \o <<"]">>

\* JSON.stringify of an array of strings: the JSON text
JSONStringify(a) ==
    <<"[">> \o Join([i \in 1..Len(a) |-> <<Quote>> \o EscapeJson(a[i]) \o <<Quote>>],
                    <<",">>)
          \o <<"]">>

\* the string whose opening quote has been read: its characters up to the
\* closing quote, and the text after it
RECURSIVE ReadJsonString(_, _)
ReadJsonString(s, acc) ==
    IF s = <<>> THEN [str |-> acc, rest |-> <<>>]
    ELSE IF Head(s) = Backslash /\ Len(s) >= 2
    THEN ReadJsonString(SubSeq(s, 3, Len(s)), Append(acc, s[2]))
    ELSE IF Head(s) = Quote THEN [str |-> acc, rest |-> Tail(s)]
    ELSE ReadJsonString(Tail(s), Append(acc, Head(s)))

RECURSIVE ParseJsonElems(_)
ParseJsonElems(s) ==
    IF s = <<>> \/ Head(s) = "]" THEN <<>>
    ELSE IF Head(s) = Quote
    THEN LET r == ReadJsonString(Tail(s), <<>>)
         IN  <<r.str>> \o ParseJsonElems(r.rest)
    ELSE ParseJsonElems(Tail(s))

\* JSON.parse of the text of an array of strings
JSONParse(text) == ParseJsonElems(text)

\* the JSONB value the engine stores for a text parameter
Jsonb(text) == [json |-> JSONParse(text)]

\* the value the driver hands back for a JSONB column: the parsed array
FromJsonb(j) == j.json

\* a plain INSERT with no conflict clause on a table without the key
UpsertNoConflict(rows, row) == rows \cup {row}

\* variant: INSERT INTO kpi ... ON CONFLICT (name) DO NOTHING
UpsertDoNothing(rows, row) ==
    IF \E r \in rows : r.name = row.name THEN rows ELSE rows \cup {row}

\* INSERT INTO kpi ... ON CONFLICT (name) DO UPDATE SET ...
Upsert(rows, row) ==
    IF \E r \in rows : r.name = row.name
    THEN {r \in rows : r.name # row.name} \cup {row}
    ELSE rows \cup {row}

\* save-kpi
SaveKPITool(context, db) ==
    LET row == [name |-> context.name,
                description |-> OrNull(context.description),
                formula |-> Some(context.formula),
                table_name |-> OrNull(context.table),
                columns |-> IF context.columns # None
                            THEN Some(Jsonb(JSONStringify(Get(context.columns))))
                            ELSE None]
    IN  [success |-> TRUE, db |-> [db EXCEPT !.kpi = Upsert(@, row)]]

\* insertKPI of db_shared
InsertKPI(data, db) ==
    LET row == [name |-> data.name,
                description |-> OrNull(data.description),
                formula |-> Some(data.formula),
                table_name |-> OrNull(data.table_name),
                columns |-> IF data.columns # None
                            THEN Some(Jsonb(JSONStringify(Get(data.columns))))
                            ELSE None]
    IN  [db |-> [db EXCEPT !.kpi = Upsert(@, row)]]

\* fetch-kpis
FetchKPIsTool(db) ==
    LET rows == OrderByName(db.kpi, NameOrder)
    IN  [kpis |-> [i \in 1..Len(rows) |->
                    [name |-> rows[i].name,
                     formula |-> rows[i].formula,
                     table_name |-> rows[i].table_name,
                     columns |-> IF rows[i].columns # None
                                 THEN Some(FromJsonb(Get(rows[i].columns)))
                                 ELSE None]]]

\* `x || null` for an optional number: 0 is falsy
NumOrNull(o) == IF \E v \in o : v # 0 THEN o ELSE None

\* variant: an insight of the same name is replaced by the new row
SaveInsightToolByName(context, db) ==
    LET row == [id |-> db.insight_id_seq,
                name |-> context.name,
                description |-> OrNull(context.description),
                kpi_name |-> OrNull(context.kpi_name),
                formula |-> Some(context.formula),
                schedule |-> OrNull(context.schedule),
                exec_time |-> OrNull(context.exec_time),
                alert_high |-> NumOrNull(context.alert_high),
                alert_low |-> NumOrNull(context.alert_low)]
        fkOk == \A n \in row.kpi_name : \E r \in db.kpi : r.name = n
    IN  IF fkOk
        THEN [ok |-> TRUE, success |-> TRUE,
              db |-> [db EXCEPT !.insight =
                            Append(SelectSeq(@, LAMBDA r : r.name # row.name), row),
                                !.insight_id_seq = @ + 1]]
        ELSE [ok |-> FALSE, success |-> FALSE,
              db |-> [db EXCEPT !.insight_id_seq = @ + 1]]

\* save-insight; the foreign key on kpi_name makes the engine reject a
\* reference to a KPI that does not exist
SaveInsightTool(context, db) ==
    LET row == [id |-> db.insight_id_seq,
                name |-> context.name,
                description |-> OrNull(context.description),
                kpi_name |-> OrNull(context.kpi_name),
                formula |-> Some(context.formula),
                schedule |-> OrNull(context.schedule),
                exec_time |-> OrNull(context.exec_time),
                alert_high |-> NumOrNull(context.alert_high),
                alert_low |-> NumOrNull(context.alert_low)]
        fkOk == \A n \in row.kpi_name : \E r \in db.kpi : r.name = n
    IN  IF fkOk
        THEN [ok |-> TRUE, success |-> TRUE,
              db |-> [db EXCEPT !.insight = Append(@, row),
                                !.insight_id_seq = @ + 1]]
        ELSE [ok |-> FALSE, success |-> FALSE,
              db |-> [db EXCEPT !.insight_id_seq = @ + 1]]

----------------------------------------------------------------------------
(* The workflow engine: a run is a position in a fixed list of steps.  A   *)
(* step's execute returns an outcome: its output, a suspend payload, or an *)
(* error; with it the state of the database after the step's tool calls    *)
(* and the tool calls it made.                                             *)

KpiSteps == << "list-tables", "select-tables", "list-columns",
               "select-columns-details", "generate-sql", "preview-results",
               "confirm-save" >>

SimpleSteps == << "get-tables", "select-table", "get-columns", "define-kpi",
                  "preview-kpi", "save-kpi" >>

InsightSteps == << "fetch-kpis", "select-kpi", "execute-kpi-query",
                   "generate-insight", "confirm-save-insight" >>

Steps(w) ==
    IF w = "kpi" THEN KpiSteps
    ELSE IF w = "simple" THEN SimpleSteps
    ELSE IF w = "insight" THEN InsightSteps
    ELSE <<>>

At(w, id) == wf = w /\ step \in 1..Len(Steps(w)) /\ Steps(w)[step] = id

Output(v, db, cs) == [kind |-> "output", value |-> v, db |-> db, calls |-> cs]
Suspend(p, db) == [kind |-> "suspend", value |-> p, db |-> db, calls |-> <<>>]
Throw(e, db, cs) == [kind |-> "throw", value |-> e, db |-> db, calls |-> cs]

\* what the engine does with the outcome of the current step
Apply(o) ==
    /\ kpi' = o.db.kpi
    /\ insight' = o.db.insight
    /\ insight_id_seq' = o.db.insight_id_seq
    /\ calls' = calls \o o.calls
    /\ UNCHANGED <<wf, kpiAtStart, insightAtStart>>
    /\ UNCHANGED sysvars
    /\ UNCHANGED other
    /\ IF o.kind = "suspend"
       THEN /\ status' = "suspended"
            /\ suspendPayload' = Some(o.value)
            /\ resumeData' = None
            /\ UNCHANGED <<step, inputData, result, error, resumed>>
       ELSE IF o.kind = "throw"
       THEN /\ status' = "failed"
            /\ error' = Some(o.value)
            /\ suspendPayload' = None
            /\ resumed' = [resumed EXCEPT ![step] = resumeData]
            /\ UNCHANGED <<step, inputData, result, resumeData>>
       ELSE IF step = Len(Steps(wf))
       THEN /\ status' = "success"
            /\ result' = Some(o.value)
            /\ suspendPayload' = None
            /\ resumed' = [resumed EXCEPT ![step] = resumeData]
            /\ UNCHANGED <<step, inputData, error, resumeData>>
       ELSE /\ status' = "running"
            /\ step' = step + 1
            /\ inputData' = o.value
            /\ suspendPayload' = None
            /\ resumeData' = None
            /\ resumed' = [resumed EXCEPT ![step] = resumeData]
            /\ UNCHANGED <<result, error>>

\* the engine executes the current step: without resume data when the run
\* reaches it, with the resume data when the external actor resumed it
Run(o) == status = "running" /\ Apply(o)

Message(t) == W(t)

----------------------------------------------------------------------------
(* What the external actor and the LLM can supply *)

TableIndexValues == {-1, 2, 3}
ColumnIndexValues == {-1, 1, 2}
SalesTable == <<"public", Dot, "sales">>
NopeTable == <<"public", Dot, "nope">>
KpiNameValues == {<<>>, W("k1"), W("k2")}
DescriptionValues == {<<>>, W("d1")}
IntentValues == {None, Some(<<>>), Some(W("count all rows"))}
ManualSqlValues == {None, Some(<<>>), Some(W(SelectSales)), Some(W(InsertCte))}
EditedSqlValues == {None, Some(<<>>), Some(<<SelectSales, Semi>>)}
GeneratedSql == {<<SelectSales, Semi>>, W(Garbage)}

SelectTablesResume ==
    [selectedTableIndexes : SeqsUpTo(TableIndexValues, MaxSel)]

\* selectedColumnsByTable as its Object.entries
ColumnSelections ==
    {<<>>} \cup
    { <<[table |-> t, indexes |-> ix]>> :
        t \in {SalesTable, NopeTable}, ix \in SeqsUpTo(ColumnIndexValues, MaxSel) }

SelectColumnsResume ==
    [selectedColumnsByTable : ColumnSelections, kpiName : KpiNameValues,
     kpiDescription : DescriptionValues, useAIGeneration : BOOLEAN,
     sqlIntent : IntentValues, manualSQL : ManualSqlValues]

ConfirmResume == [confirmed : BOOLEAN, editedSQL : EditedSqlValues]

SelectTableResume ==
    [tableName : {<<>>, SalesTable, W("sales"), NopeTable, W("nope"),
                  SalesTable \o <<Dot, "extra">>}]

DefineKPIResume ==
    [kpiName : KpiNameValues, kpiDescription : DescriptionValues,
     useAI : BOOLEAN, sqlIntent : IntentValues, manualSQL : ManualSqlValues]

SelectKPIResume ==
    [kpiName : KpiNameValues \cup {W("k9")}, insightName : {<<>>, W("i1")},
     insightDescription : DescriptionValues]

InsightTexts == {<<>>, W("sales grow")}

ConfirmInsightResume ==
    [confirmed : BOOLEAN,
     editedInsight : {None, Some(<<>>), Some(W("edited insight"))}]

\* the payloads that conform to the resume schema of a step
ResumeSchema(id) ==
    IF id = "select-tables" THEN SelectTablesResume
    ELSE IF id = "select-columns-details" THEN SelectColumnsResume
    ELSE IF id \in {"confirm-save", "save-kpi"} THEN ConfirmResume
    ELSE IF id = "select-table" THEN SelectTableResume
    ELSE IF id = "define-kpi" THEN DefineKPIResume
    ELSE IF id = "select-kpi" THEN SelectKPIResume
    ELSE IF id = "confirm-save-insight" THEN ConfirmInsightResume
    ELSE {}

HasResumeSchema(id) ==
    id \in {"select-tables", "select-columns-details", "confirm-save",
            "select-table", "define-kpi", "save-kpi", "select-kpi",
            "confirm-save-insight"}

\* run.resume({ step, resumeData }): the external actor resumes the paused step
Resume ==
    /\ status = "suspended"
    /\ \E rd \in ResumeSchema(Steps(wf)[step]) : resumeData' = Some(rd)
    /\ status' = "running"
    /\ UNCHANGED <<kpi, insight, insight_id_seq, wf, step, inputData,
                   suspendPayload, result, error, calls, resumed, kpiAtStart,
                   insightAtStart>>
    /\ UNCHANGED sysvars
    /\ UNCHANGED other

----------------------------------------------------------------------------
(* kpi-creation-workflow *)

ListTablesStepExecute(db) ==
    Output([tables |-> ListTablesTool.tables], db, <<[tool |-> "list-tables"]>>)

\* variant: an empty selection is treated as an invalid one
SelectTablesStepRejectEmpty(input, rd, db) ==
    LET tables == input.tables
    IN  IF rd = None
        THEN Suspend([availableTables |->
                         [i \in 1..Len(tables) |-> [index |-> i - 1, name |-> tables[i]]],
                      message |-> Message("Select tables by providing their index numbers")],
                     db)
        ELSE LET selectedTableIndexes == Get(rd).selectedTableIndexes
                 Invalid(i) == i < 0 \/ i >= Len(tables)
                 invalidIndexes == SelectSeq(selectedTableIndexes, Invalid)
             IN  IF invalidIndexes # <<>> \/ selectedTableIndexes = <<>>
                 THEN Throw([type |-> "Invalid table indexes",
                             indexes |-> invalidIndexes,
                             max |-> Len(tables) - 1], db, <<>>)
                 ELSE Output([selectedTables |->
                                 [j \in 1..Len(selectedTableIndexes) |->
                                     tables[selectedTableIndexes[j] + 1]]],
                             db, <<>>)

SelectTablesStepExecute(input, rd, db) ==
    LET tables == input.tables
    IN  IF rd = None \/ Get(rd).selectedTableIndexes = <<>>
        THEN Suspend([availableTables |->
                         [i \in 1..Len(tables) |-> [index |-> i - 1, name |-> tables[i]]],
                      message |-> Message("Select tables by providing their index numbers")],
                     db)
        ELSE LET selectedTableIndexes == Get(rd).selectedTableIndexes
                 Invalid(i) == i < 0 \/ i >= Len(tables)
                 invalidIndexes == SelectSeq(selectedTableIndexes, Invalid)
             IN  IF invalidIndexes # <<>>
                 THEN Throw([type |-> "Invalid table indexes",
                             indexes |-> invalidIndexes,
                             max |-> Len(tables) - 1], db, <<>>)
                 ELSE Output([selectedTables |->
                                 [j \in 1..Len(selectedTableIndexes) |->
                                     tables[selectedTableIndexes[j] + 1]]],
                             db, <<>>)

Range(a) == {a[i] : i \in 1..Len(a)}

ListColumnsStepExecute(input, db) ==
    LET selectedTables == input.selectedTables
    IN  Output([columns |-> [t \in Range(selectedTables) |->
                                ListColumnsTool([table |-> t]).columns],
                selectedTables |-> selectedTables],
               db,
               [j \in 1..Len(selectedTables) |->
                   [tool |-> "list-columns", table |-> selectedTables[j]]])

\* the two nested loops of select-columns-details: acc is selectedColumns so
\* far; the result is the first error met, or the finished list
RECURSIVE ConvertIndexes(_, _, _, _)
ConvertIndexes(table, indexes, columns, acc) ==
    IF indexes = <<>> THEN [ok |-> TRUE, selectedColumns |-> acc]
    ELSE LET index == Head(indexes)
         IN  IF index < 0 \/ index >= Len(columns[table])
             THEN [ok |-> FALSE,
                   error |-> [type |-> "Invalid column index",
                              indexes |-> <<index>>, table |-> table,
                              max |-> Len(columns[table]) - 1]]
             ELSE ConvertIndexes(table, Tail(indexes), columns,
                      Append(acc, table \o W(Dot)
                                    \o columns[table][index + 1].column_name))

RECURSIVE ConvertEntries(_, _, _)
ConvertEntries(entries, columns, acc) ==
    IF entries = <<>> THEN [ok |-> TRUE, selectedColumns |-> acc]
    ELSE LET table == Head(entries).table
         IN  IF table \notin DOMAIN columns
             THEN [ok |-> FALSE,
                   error |-> [type |-> "Table not found in selected tables",
                              indexes |-> <<>>, table |-> table, max |-> -1]]
             ELSE LET r == ConvertIndexes(table, Head(entries).indexes, columns, acc)
                  IN  IF r.ok
                      THEN ConvertEntries(Tail(entries), columns, r.selectedColumns)
                      ELSE r

SelectColumnsAndDetailsStepExecute(input, rd, db) ==
    LET columns == input.columns
        selectedTables == input.selectedTables
    IN  IF rd = None \/ ~Truthy(Some(Get(rd).kpiName))
        THEN Suspend([availableColumns |->
                         [t \in Range(selectedTables) |->
                             [i \in 1..Len(columns[t]) |->
                                 [index |-> i - 1,
                                  column_name |-> columns[t][i].column_name,
                                  data_type |-> columns[t][i].data_type]]],
                      message |-> Message("Provide: selectedColumnsByTable, kpiName, kpiDescription, useAIGeneration, sqlIntent OR manualSQL")],
                     db)
        ELSE LET r == ConvertEntries(Get(rd).selectedColumnsByTable, columns, <<>>)
             IN  IF ~r.ok THEN Throw(r.error, db, <<>>)
                 ELSE Output([selectedColumns |-> r.selectedColumns,
                              selectedTables |-> selectedTables,
                              kpiName |-> Get(rd).kpiName,
                              kpiDescription |-> Get(rd).kpiDescription,
                              useAIGeneration |-> Get(rd).useAIGeneration,
                              sqlIntent |-> Get(rd).sqlIntent,
                              manualSQL |-> Get(rd).manualSQL],
                             db, <<>>)

\* generate-sql tool (sql_generator): the SQL text is the LLM's choice
GenerateSQLTool(context, llmSql) == [sql |-> llmSql]

\* variant: `if (useAIGeneration)` without the test of the intent
GenerateSQLStepIgnoreIntent(input, llmSql, db) ==
    IF input.useAIGeneration
    THEN Output([sqlQuery |-> llmSql,
                 kpiName |-> input.kpiName,
                 kpiDescription |-> input.kpiDescription,
                 selectedColumns |-> input.selectedColumns,
                 selectedTables |-> input.selectedTables],
                db, <<[tool |-> "generate-sql"]>>)
    ELSE IF Truthy(input.manualSQL)
    THEN Output([sqlQuery |-> Get(input.manualSQL),
                 kpiName |-> input.kpiName,
                 kpiDescription |-> input.kpiDescription,
                 selectedColumns |-> input.selectedColumns,
                 selectedTables |-> input.selectedTables],
                db, <<>>)
    ELSE Throw([type |-> "Either AI generation with intent or manual SQL must be provided",
                indexes |-> <<>>], db, <<>>)

GenerateSQLStepExecute(input, llmSql, db) ==
    IF input.useAIGeneration /\ Truthy(input.sqlIntent)
    THEN Output([sqlQuery |->
                    GenerateSQLTool([intent |-> Get(input.sqlIntent),
                                     tables |-> input.selectedTables,
                                     columns |-> input.selectedColumns,
                                     limit |-> 10], llmSql).sql,
                 kpiName |-> input.kpiName,
                 kpiDescription |-> input.kpiDescription,
                 selectedColumns |-> input.selectedColumns,
                 selectedTables |-> input.selectedTables],
                db, <<[tool |-> "generate-sql"]>>)
    ELSE IF Truthy(input.manualSQL)
    THEN Output([sqlQuery |-> Get(input.manualSQL),
                 kpiName |-> input.kpiName,
                 kpiDescription |-> input.kpiDescription,
                 selectedColumns |-> input.selectedColumns,
                 selectedTables |-> input.selectedTables],
                db, <<>>)
    ELSE Throw([type |-> "Either AI generation with intent or manual SQL must be provided",
                indexes |-> <<>>], db, <<>>)

QueryCall(res, limit) ==
    [tool |-> "run-query", sent |-> res.sent, limit |-> limit, ok |-> res.ok]

EngineError == [type |-> "database error", indexes |-> <<>>]

\* variant: the statement that was sent is passed on as the KPI's SQL
PreviewResultsStepPassLimited(input, db) ==
    LET res == RunQueryTool([sql |-> input.sqlQuery, limit |-> 5], db)
    IN  IF ~res.ok THEN Throw(EngineError, res.db, <<QueryCall(res, 5)>>)
        ELSE Output([sqlQuery |-> res.sent,
                     kpiName |-> input.kpiName,
                     kpiDescription |-> input.kpiDescription,
                     previewResults |-> res.rows,
                     selectedColumns |-> input.selectedColumns,
                     selectedTables |-> input.selectedTables],
                    res.db, <<QueryCall(res, 5)>>)

PreviewResultsStepExecute(input, db) ==
    LET res == RunQueryTool([sql |-> input.sqlQuery, limit |-> 5], db)
    IN  IF ~res.ok THEN Throw(EngineError, res.db, <<QueryCall(res, 5)>>)
        ELSE Output([sqlQuery |-> input.sqlQuery,
                     kpiName |-> input.kpiName,
                     kpiDescription |-> input.kpiDescription,
                     previewResults |-> res.rows,
                     selectedColumns |-> input.selectedColumns,
                     selectedTables |-> input.selectedTables],
                    res.db, <<QueryCall(res, 5)>>)

SaveCall(context) == [tool |-> "save-kpi", context |-> context]

\* variant: only an explicit confirmed = false pauses
ConfirmAndSaveStepEager(input, rd, db) ==
    IF rd # None /\ ~Get(rd).confirmed
    THEN Suspend([sqlQuery |-> input.sqlQuery,
                  previewResults |-> input.previewResults,
                  message |-> Message("Review the SQL query and results. Confirm to save or provide edited SQL.")],
                 db)
    ELSE LET context == [name |-> input.kpiName,
                         description |-> Some(input.kpiDescription),
                         formula |-> IF rd = None THEN input.sqlQuery
                                     ELSE OrElse(Get(rd).editedSQL, input.sqlQuery),
                         table |-> Some(Join(input.selectedTables, W(", "))),
                         columns |-> Some(input.selectedColumns)]
             res == SaveKPITool(context, db)
         IN  Output([kpiName |-> input.kpiName, success |-> res.success],
                    res.db, <<SaveCall(context)>>)

ConfirmAndSaveStepExecute(input, rd, db) ==
    IF rd = None \/ ~Get(rd).confirmed
    THEN Suspend([sqlQuery |-> input.sqlQuery,
                  previewResults |-> input.previewResults,
                  message |-> Message("Review the SQL query and results. Confirm to save or provide edited SQL.")],
                 db)
    ELSE LET finalSQL == OrElse(Get(rd).editedSQL, input.sqlQuery)
             context == [name |-> input.kpiName,
                         description |-> Some(input.kpiDescription),
                         formula |-> finalSQL,
                         table |-> Some(Join(input.selectedTables, W(", "))),
                         columns |-> Some(input.selectedColumns)]
             res == SaveKPITool(context, db)
         IN  Output([kpiName |-> input.kpiName, success |-> res.success],
                    res.db, <<SaveCall(context)>>)

ListTablesStep == At("kpi", "list-tables") /\ Run(ListTablesStepExecute(DB))

SelectTablesStep ==
    At("kpi", "select-tables")
    /\ Run(SelectTablesStepExecute(inputData, resumeData, DB))

ListColumnsStep ==
    At("kpi", "list-columns") /\ Run(ListColumnsStepExecute(inputData, DB))

SelectColumnsAndDetailsStep ==
    At("kpi", "select-columns-details")
    /\ Run(SelectColumnsAndDetailsStepExecute(inputData, resumeData, DB))

GenerateSQLStep ==
    At("kpi", "generate-sql")
    /\ \E llmSql \in GeneratedSql : Run(GenerateSQLStepExecute(inputData, llmSql, DB))

PreviewResultsStep ==
    At("kpi", "preview-results") /\ Run(PreviewResultsStepExecute(inputData, DB))

ConfirmAndSaveStep ==
    At("kpi", "confirm-save")
    /\ Run(ConfirmAndSaveStepExecute(inputData, resumeData, DB))

----------------------------------------------------------------------------
(* simple-kpi-workflow *)

GetTablesStepExecute(db) ==
    Output([tables |-> ListTablesTool.tables], db, <<[tool |-> "list-tables"]>>)

SelectTableStepExecute(input, rd, db) ==
    IF rd = None \/ ~Truthy(Some(Get(rd).tableName))
    THEN Suspend([tables |-> input.tables,
                  message |-> Message("Select a table by providing the full table name")],
                 db)
    ELSE Output([tableName |-> Get(rd).tableName], db, <<>>)

GetColumnsStepExecute(input, db) ==
    Output([tableName |-> input.tableName,
            columns |-> ListColumnsTool([table |-> input.tableName]).columns],
           db, <<[tool |-> "list-columns", table |-> input.tableName]>>)

\* variant: the KPI is stored before the SQL source is validated
DefineKPIStepSaveFirst(input, rd, llmSql, db) ==
    IF rd = None \/ ~Truthy(Some(Get(rd).kpiName))
    THEN Suspend([tableName |-> input.tableName,
                  columns |-> input.columns,
                  message |-> Message("Provide: kpiName, kpiDescription, useAI, and either sqlIntent OR manualSQL")],
                 db)
    ELSE LET context == [name |-> Get(rd).kpiName,
                         description |-> Some(Get(rd).kpiDescription),
                         formula |-> OrElse(Get(rd).manualSQL, <<>>),
                         table |-> None, columns |-> None]
             saved == SaveKPITool(context, db).db
         IN  IF Get(rd).useAI /\ Truthy(Get(rd).sqlIntent)
             THEN Output([kpiName |-> Get(rd).kpiName,
                          kpiDescription |-> Get(rd).kpiDescription,
                          sqlQuery |-> llmSql],
                         db, <<[tool |-> "generate-sql"]>>)
             ELSE IF ~Get(rd).useAI /\ Truthy(Get(rd).manualSQL)
             THEN Output([kpiName |-> Get(rd).kpiName,
                          kpiDescription |-> Get(rd).kpiDescription,
                          sqlQuery |-> Get(Get(rd).manualSQL)],
                         db, <<>>)
             ELSE Throw([type |-> "Provide either sqlIntent (with useAI=true) or manualSQL (with useAI=false)",
                         indexes |-> <<>>], saved, <<>>)

DefineKPIStepExecute(input, rd, llmSql, db) ==
    IF rd = None \/ ~Truthy(Some(Get(rd).kpiName))
    THEN Suspend([tableName |-> input.tableName,
                  columns |-> input.columns,
                  message |-> Message("Provide: kpiName, kpiDescription, useAI, and either sqlIntent OR manualSQL")],
                 db)
    ELSE IF Get(rd).useAI /\ Truthy(Get(rd).sqlIntent)
    THEN Output([kpiName |-> Get(rd).kpiName,
                 kpiDescription |-> Get(rd).kpiDescription,
                 sqlQuery |->
                    GenerateSQLTool([intent |-> Get(Get(rd).sqlIntent),
                                     tables |-> <<input.tableName>>,
                                     columns |-> [i \in 1..Len(input.columns) |->
                                                    input.tableName \o W(Dot)
                                                      \o input.columns[i].column_name],
                                     limit |-> 100], llmSql).sql],
                db, <<[tool |-> "generate-sql"]>>)
    ELSE IF ~Get(rd).useAI /\ Truthy(Get(rd).manualSQL)
    THEN Output([kpiName |-> Get(rd).kpiName,
                 kpiDescription |-> Get(rd).kpiDescription,
                 sqlQuery |-> Get(Get(rd).manualSQL)],
                db, <<>>)
    ELSE Throw([type |-> "Provide either sqlIntent (with useAI=true) or manualSQL (with useAI=false)",
                indexes |-> <<>>], db, <<>>)

PreviewKPIStepExecute(input, db) ==
    LET res == RunQueryTool([sql |-> input.sqlQuery, limit |-> 5], db)
    IN  IF ~res.ok THEN Throw(EngineError, res.db, <<QueryCall(res, 5)>>)
        ELSE Output([kpiName |-> input.kpiName,
                     kpiDescription |-> input.kpiDescription,
                     sqlQuery |-> input.sqlQuery,
                     preview |-> res.rows],
                    res.db, <<QueryCall(res, 5)>>)

\* variant: any resume saves, whatever the value of confirmed
SaveKPIStepAnyResume(input, rd, db) ==
    IF rd = None
    THEN Suspend([sqlQuery |-> input.sqlQuery,
                  preview |-> input.preview,
                  message |-> Message("Review the SQL and preview. Set confirmed=true to save, or provide editedSQL to modify")],
                 db)
    ELSE LET finalSQL == OrElse(Get(rd).editedSQL, input.sqlQuery)
             context == [name |-> input.kpiName,
                         description |-> Some(input.kpiDescription),
                         formula |-> finalSQL,
                         table |-> None,
                         columns |-> None]
             res == SaveKPITool(context, db)
         IN  Output([kpiName |-> input.kpiName, success |-> res.success],
                    res.db, <<SaveCall(context)>>)

\* variant: the step pauses again whatever the resume data
SaveKPIStepAlwaysPauses(input, rd, db) ==
    Suspend([sqlQuery |-> input.sqlQuery,
             preview |-> input.preview,
             message |-> Message("Review the SQL and preview. Set confirmed=true to save, or provide editedSQL to modify")],
            db)

SaveKPIStepExecute(input, rd, db) ==
    IF rd = None \/ ~Get(rd).confirmed
    THEN Suspend([sqlQuery |-> input.sqlQuery,
                  preview |-> input.preview,
                  message |-> Message("Review the SQL and preview. Set confirmed=true to save, or provide editedSQL to modify")],
                 db)
    ELSE LET finalSQL == OrElse(Get(rd).editedSQL, input.sqlQuery)
             context == [name |-> input.kpiName,
                         description |-> Some(input.kpiDescription),
                         formula |-> finalSQL,
                         table |-> None,
                         columns |-> None]
             res == SaveKPITool(context, db)
         IN  Output([kpiName |-> input.kpiName, success |-> res.success],
                    res.db, <<SaveCall(context)>>)

GetTablesStep == At("simple", "get-tables") /\ Run(GetTablesStepExecute(DB))

SelectTableStep ==
    At("simple", "select-table")
    /\ Run(SelectTableStepExecute(inputData, resumeData, DB))

GetColumnsStep ==
    At("simple", "get-columns") /\ Run(GetColumnsStepExecute(inputData, DB))

DefineKPIStep ==
    At("simple", "define-kpi")
    /\ \E llmSql \in GeneratedSql :
        Run(DefineKPIStepExecute(inputData, resumeData, llmSql, DB))

PreviewKPIStep ==
    At("simple", "preview-kpi") /\ Run(PreviewKPIStepExecute(inputData, DB))

SaveKPIStep ==
    At("simple", "save-kpi") /\ Run(SaveKPIStepExecute(inputData, resumeData, DB))

----------------------------------------------------------------------------
(* insight-generation-workflow *)

FetchKPIsStepExecute(db) ==
    Output([kpis |-> FetchKPIsTool(db).kpis], db, <<[tool |-> "fetch-kpis"]>>)

\* variant: falls back on the first KPI when no name matches
FindOrFirst(kpis, name) ==
    LET hits == SelectSeq(kpis, LAMBDA k : k.name = name)
    IN  IF hits # <<>> THEN Some(hits[1])
        ELSE IF kpis # <<>> THEN Some(kpis[1]) ELSE None

\* Array.prototype.find: the first element with the name
Find(kpis, name) ==
    LET hits == SelectSeq(kpis, LAMBDA k : k.name = name)
    IN  IF hits = <<>> THEN None ELSE Some(hits[1])

\* variant: the guard tests kpiName only
SelectKPIStepGuardNameOnly(input, rd, db) ==
    LET kpis == input.kpis
    IN  IF rd = None \/ ~Truthy(Some(Get(rd).kpiName))
        THEN Suspend([availableKPIs |-> [i \in 1..Len(kpis) |-> [name |-> kpis[i].name]],
                      message |-> Message("Select a KPI and provide insight name and description")],
                     db)
        ELSE LET hits == SelectSeq(kpis, LAMBDA k : k.name = Get(rd).kpiName)
             IN  IF hits = <<>>
                 THEN Throw([type |-> "KPI not found", indexes |-> <<>>,
                             name |-> Get(rd).kpiName], db, <<>>)
                 ELSE Output([kpiName |-> Get(rd).kpiName,
                              kpiFormula |-> hits[1].formula,
                              insightName |-> Get(rd).insightName,
                              insightDescription |-> Get(rd).insightDescription],
                             db, <<>>)

SelectKPIStepExecute(input, rd, db) ==
    LET kpis == input.kpis
    IN  IF rd = None \/ ~Truthy(Some(Get(rd).kpiName))
                     \/ ~Truthy(Some(Get(rd).insightName))
        THEN Suspend([availableKPIs |-> [i \in 1..Len(kpis) |-> [name |-> kpis[i].name]],
                      message |-> Message("Select a KPI and provide insight name and description")],
                     db)
        ELSE LET selectedKPI == Find(kpis, Get(rd).kpiName)
             IN  IF selectedKPI = None
                 THEN Throw([type |-> "KPI not found", indexes |-> <<>>,
                             name |-> Get(rd).kpiName], db, <<>>)
                 ELSE Output([kpiName |-> Get(rd).kpiName,
                              kpiFormula |-> Get(selectedKPI).formula,
                              insightName |-> Get(rd).insightName,
                              insightDescription |-> Get(rd).insightDescription],
                             db, <<>>)

ExecuteKPIQueryStepExecute(input, db) ==
    IF input.kpiFormula = None
    THEN Throw([type |-> "TypeError", indexes |-> <<>>], db, <<>>)
    ELSE LET res == RunQueryTool([sql |-> Get(input.kpiFormula), limit |-> 10], db)
         IN  IF ~res.ok THEN Throw(EngineError, res.db, <<QueryCall(res, 10)>>)
             ELSE Output([kpiName |-> input.kpiName,
                          kpiData |-> res.rows,
                          insightName |-> input.insightName,
                          insightDescription |-> input.insightDescription],
                         res.db, <<QueryCall(res, 10)>>)

\* insightAgent.generate: the text is the LLM's choice
GenerateInsightStepExecute(input, text, db) ==
    Output([kpiName |-> input.kpiName,
            insightText |-> text,
            insightName |-> input.insightName],
           db, <<[tool |-> "insightAgent.generate",
                  sample |-> Take(input.kpiData, 5)]>>)

\* variant: the generated text is saved, an edited text is ignored
ConfirmAndSaveInsightStepIgnoreEdit(input, rd, db) ==
    IF rd = None \/ ~Get(rd).confirmed
    THEN Suspend([insightText |-> input.insightText,
                  message |-> Message("Review the generated insight. Confirm to save or provide edited version.")],
                 db)
    ELSE LET context == [name |-> input.insightName,
                         description |-> None,
                         kpi_name |-> Some(input.kpiName),
                         formula |-> input.insightText,
                         schedule |-> None,
                         exec_time |-> None,
                         alert_high |-> None,
                         alert_low |-> None]
             res == SaveInsightTool(context, db)
             call == [tool |-> "save-insight", context |-> context]
         IN  IF ~res.ok THEN Throw(EngineError, res.db, <<call>>)
             ELSE Output([insightName |-> input.insightName, success |-> res.success],
                         res.db, <<call>>)

ConfirmAndSaveInsightStepExecute(input, rd, db) ==
    IF rd = None \/ ~Get(rd).confirmed
    THEN Suspend([insightText |-> input.insightText,
                  message |-> Message("Review the generated insight. Confirm to save or provide edited version.")],
                 db)
    ELSE LET finalInsight == OrElse(Get(rd).editedInsight, input.insightText)
             context == [name |-> input.insightName,
                         description |-> None,
                         kpi_name |-> Some(input.kpiName),
                         formula |-> finalInsight,
                         schedule |-> None,
                         exec_time |-> None,
                         alert_high |-> None,
                         alert_low |-> None]
             res == SaveInsightTool(context, db)
             call == [tool |-> "save-insight", context |-> context]
         IN  IF ~res.ok THEN Throw(EngineError, res.db, <<call>>)
             ELSE Output([insightName |-> input.insightName, success |-> res.success],
                         res.db, <<call>>)

FetchKPIsStep == At("insight", "fetch-kpis") /\ Run(FetchKPIsStepExecute(DB))

SelectKPIStep ==
    At("insight", "select-kpi")
    /\ Run(SelectKPIStepExecute(inputData, resumeData, DB))

ExecuteKPIQueryStep ==
    At("insight", "execute-kpi-query")
    /\ Run(ExecuteKPIQueryStepExecute(inputData, DB))

GenerateInsightStep ==
    At("insight", "generate-insight")
    /\ \E text \in InsightTexts : Run(GenerateInsightStepExecute(inputData, text, DB))

ConfirmAndSaveInsightStep ==
    At("insight", "confirm-save-insight")
    /\ Run(ConfirmAndSaveInsightStepExecute(inputData, resumeData, DB))

----------------------------------------------------------------------------
(* A second run, of simple-kpi-workflow, that executes concurrently: it    *)
(* has its own step data and shares the connection pool, that is the       *)
(* tables.  Its steps are the steps of simple-kpi-workflow.                *)

OtherIdle ==
    [status |-> "idle", step |-> 0, inputData |-> [start |-> TRUE],
     resumeData |-> None, saved |-> None]

\* what the external actor of the second run resumes its steps with
OtherResumeData(id) ==
    IF id = "select-table" THEN [tableName |-> SalesTable]
    ELSE IF id = "define-kpi"
    THEN [kpiName |-> W("k1"), kpiDescription |-> W("d1"), useAI |-> FALSE,
          sqlIntent |-> None, manualSQL |-> Some(W(SelectSales))]
    ELSE [confirmed |-> TRUE, editedSQL |-> None]

\* execute of the step the second run is at
OtherExecute(o, llmSql, db) ==
    LET id == SimpleSteps[o.step]
    IN  IF id = "get-tables" THEN GetTablesStepExecute(db)
        ELSE IF id = "select-table"
        THEN SelectTableStepExecute(o.inputData, o.resumeData, db)
        ELSE IF id = "get-columns" THEN GetColumnsStepExecute(o.inputData, db)
        ELSE IF id = "define-kpi"
        THEN DefineKPIStepExecute(o.inputData, o.resumeData, llmSql, db)
        ELSE IF id = "preview-kpi" THEN PreviewKPIStepExecute(o.inputData, db)
        ELSE SaveKPIStepExecute(o.inputData, o.resumeData, db)

\* the first run's own state
runvars == <<wf, step, status, inputData, resumeData, suspendPayload, result,
             error, calls, resumed, kpiAtStart, insightAtStart>>

OtherStart ==
    /\ other.status = "idle"
    /\ other' = [other EXCEPT !.status = "running", !.step = 1]
    /\ UNCHANGED <<dbvars, runvars, sysvars>>

OtherResume ==
    /\ other.status = "suspended"
    /\ other' = [other EXCEPT !.status = "running",
                              !.resumeData = Some(OtherResumeData(SimpleSteps[other.step]))]
    /\ UNCHANGED <<dbvars, runvars, sysvars>>

OtherStep ==
    /\ other.status = "running"
    /\ \E llmSql \in GeneratedSql :
        LET o == OtherExecute(other, llmSql, DB)
        IN  /\ kpi' = o.db.kpi
            /\ insight' = o.db.insight
            /\ insight_id_seq' = o.db.insight_id_seq
            /\ other' =
                IF o.kind = "suspend"
                THEN [other EXCEPT !.status = "suspended", !.resumeData = None]
                ELSE IF o.kind = "throw"
                THEN [other EXCEPT !.status = "failed"]
                ELSE IF other.step = Len(SimpleSteps)
                THEN [other EXCEPT !.status = "success",
                                   !.saved = Some(o.calls[1].context)]
                ELSE [other EXCEPT !.step = @ + 1, !.inputData = o.value,
                                   !.resumeData = None]
    /\ UNCHANGED <<runvars, sysvars>>

----------------------------------------------------------------------------
(* Initial state: the tables exist (ensureTables ran) and hold what        *)
(* earlier runs left in them; no run has started.                          *)

InitWf ==
    /\ wf = "none"
    /\ step = 0
    /\ status = "idle"
    /\ inputData = [start |-> TRUE]
    /\ resumeData = None
    /\ suspendPayload = None
    /\ result = None
    /\ error = None
    /\ calls = <<>>
    /\ resumed = <<>>
    /\ other = OtherIdle

\* the columns CREATE TABLE gives the two tables
KpiColumns == <<"name", "description", "formula", "table_name", "columns",
                "created_at">>

InsightColumns == <<"id", "name", "description", "kpi_name", "formula",
                    "schedule", "exec_time", "alert_high", "alert_low",
                    "created_at">>

FullCatalog == [kpi |-> KpiColumns, insight |-> InsightColumns]

\* ensureTables ran at startup and the Mastra instance serves the workflows
Started ==
    /\ catalog = FullCatalog
    /\ exitCode = None
    /\ log = <<>>
    /\ mastra = TRUE

SalesKpi ==
    [name |-> W("k1"), description |-> Some(W("d0")),
     formula |-> Some(W(SelectSales)), table_name |-> Some(SalesTable),
     columns |-> Some(Jsonb(JSONStringify(<<SalesTable \o <<Dot, "amount">> >>)))]

PurgeKpi ==
    [name |-> W("k2"), description |-> None, formula |-> Some(W(DeleteCte)),
     table_name |-> None, columns |-> None]

SalesInsight ==
    [id |-> 1, name |-> W("i0"), description |-> None, kpi_name |-> Some(W("k1")),
     formula |-> Some(W("sales are flat")), schedule |-> None, exec_time |-> None,
     alert_high |-> None, alert_low |-> None]

InitialDBs ==
    { [kpi |-> {}, insight |-> <<>>, insight_id_seq |-> 1],
      [kpi |-> {SalesKpi}, insight |-> <<>>, insight_id_seq |-> 1],
      [kpi |-> {SalesKpi, PurgeKpi}, insight |-> <<SalesInsight>>,
       insight_id_seq |-> 2] }

Init ==
    /\ InitWf
    /\ Started
    /\ \E db \in InitialDBs :
        /\ kpi = db.kpi
        /\ insight = db.insight
        /\ insight_id_seq = db.insight_id_seq
        /\ kpiAtStart = db.kpi
        /\ insightAtStart = db.insight

\* the workflows registered with the Mastra instance
Workflows == {"kpi", "simple", "insight"}

\* the workflows the first of two concurrent runs is taken from
ConcWorkflows == {"simple", "insight"}

\* run.start({ inputData: { start: true } }) of one of the workflows ws
StartOf(ws) ==
    /\ status = "idle"
    /\ \E w \in ws :
        /\ wf' = w
        /\ resumed' = [i \in 1..Len(Steps(w)) |-> None]
    /\ step' = 1
    /\ status' = "running"
    /\ inputData' = [start |-> TRUE]
    /\ kpiAtStart' = kpi
    /\ insightAtStart' = insight
    /\ UNCHANGED <<kpi, insight, insight_id_seq, resumeData, suspendPayload,
                   result, error, calls>>
    /\ UNCHANGED sysvars
    /\ UNCHANGED other

Start == StartOf(Workflows)

Next ==
    \/ Start
    \/ Resume
    \/ ListTablesStep
    \/ SelectTablesStep
    \/ ListColumnsStep
    \/ SelectColumnsAndDetailsStep
    \/ GenerateSQLStep
    \/ PreviewResultsStep
    \/ ConfirmAndSaveStep
    \/ GetTablesStep
    \/ SelectTableStep
    \/ GetColumnsStep
    \/ DefineKPIStep
    \/ PreviewKPIStep
    \/ SaveKPIStep
    \/ FetchKPIsStep
    \/ SelectKPIStep
    \/ ExecuteKPIQueryStep
    \/ GenerateInsightStep
    \/ ConfirmAndSaveInsightStep

Spec == Init /\ [][Next]_vars

\* two runs at a time: a run of the name-based or of the insight workflow,
\* and the second run
ConcNext ==
    \/ StartOf(ConcWorkflows)
    \/ Resume
    \/ GetTablesStep
    \/ SelectTableStep
    \/ GetColumnsStep
    \/ DefineKPIStep
    \/ PreviewKPIStep
    \/ SaveKPIStep
    \/ FetchKPIsStep
    \/ SelectKPIStep
    \/ ExecuteKPIQueryStep
    \/ GenerateInsightStep
    \/ ConfirmAndSaveInsightStep
    \/ OtherStart
    \/ OtherResume
    \/ OtherStep

ConcSpec == Init /\ [][ConcNext]_vars

----------------------------------------------------------------------------
(* Runs whose pauses are all answered: the external actor resumes every    *)
(* pause, with resume data the paused step accepts                         *)

\* execute of step id, the LLM answering llmSql or text when it is asked
Execute(id, input, rd, llmSql, text, db) ==
    IF id = "list-tables" THEN ListTablesStepExecute(db)
    ELSE IF id = "select-tables" THEN SelectTablesStepExecute(input, rd, db)
    ELSE IF id = "list-columns" THEN ListColumnsStepExecute(input, db)
    ELSE IF id = "select-columns-details"
    THEN SelectColumnsAndDetailsStepExecute(input, rd, db)
    ELSE IF id = "generate-sql" THEN GenerateSQLStepExecute(input, llmSql, db)
    ELSE IF id = "preview-results" THEN PreviewResultsStepExecute(input, db)
    ELSE IF id = "confirm-save" THEN ConfirmAndSaveStepExecute(input, rd, db)
    ELSE IF id = "get-tables" THEN GetTablesStepExecute(db)
    ELSE IF id = "select-table" THEN SelectTableStepExecute(input, rd, db)
    ELSE IF id = "get-columns" THEN GetColumnsStepExecute(input, db)
    ELSE IF id = "define-kpi" THEN DefineKPIStepExecute(input, rd, llmSql, db)
    ELSE IF id = "preview-kpi" THEN PreviewKPIStepExecute(input, db)
    ELSE IF id = "save-kpi" THEN SaveKPIStepExecute(input, rd, db)
    ELSE IF id = "fetch-kpis" THEN FetchKPIsStepExecute(db)
    ELSE IF id = "select-kpi" THEN SelectKPIStepExecute(input, rd, db)
    ELSE IF id = "execute-kpi-query" THEN ExecuteKPIQueryStepExecute(input, db)
    ELSE IF id = "generate-insight" THEN GenerateInsightStepExecute(input, text, db)
    ELSE ConfirmAndSaveInsightStepExecute(input, rd, db)

\* errors of a tool call that did not return
ToolErrors == {"database error", "TypeError"}

RunStatus == {"running", "suspended", "success", "failed"}

\* a tool call of the step did not return: it threw
ToolFailed(o) == o.kind = "throw" /\ o.value.type \in ToolErrors

\* the outcomes the current step can have with resume data rd
Outcomes(rd) ==
    {Execute(Steps(wf)[step], inputData, rd, llmSql, text, DB) :
        llmSql \in GeneratedSql, text \in InsightTexts}

\* the paused step accepts rd: resumed with it, it computes its output,
\* unless a tool call it makes throws
Accepts(rd) == \A o \in Outcomes(Some(rd)) : o.kind = "output" \/ ToolFailed(o)

Accepted == {rd \in ResumeSchema(Steps(wf)[step]) : Accepts(rd)}

\* run.resume with resume data the paused step accepts
ResumeAccepted ==
    /\ status = "suspended"
    /\ \E rd \in Accepted : resumeData' = Some(rd)
    /\ status' = "running"
    /\ UNCHANGED <<kpi, insight, insight_id_seq, wf, step, inputData,
                   suspendPayload, result, error, calls, resumed, kpiAtStart,
                   insightAtStart>>
    /\ UNCHANGED sysvars
    /\ UNCHANGED other

\* the engine executes the step a running run is at
StepRuns ==
    \/ ListTablesStep
    \/ SelectTablesStep
    \/ ListColumnsStep
    \/ SelectColumnsAndDetailsStep
    \/ GenerateSQLStep
    \/ PreviewResultsStep
    \/ ConfirmAndSaveStep
    \/ GetTablesStep
    \/ SelectTableStep
    \/ GetColumnsStep
    \/ DefineKPIStep
    \/ PreviewKPIStep
    \/ SaveKPIStep
    \/ FetchKPIsStep
    \/ SelectKPIStep
    \/ ExecuteKPIQueryStep
    \/ GenerateInsightStep
    \/ ConfirmAndSaveInsightStep

LiveNext == Start \/ ResumeAccepted \/ StepRuns

\* the step of a running run returns: the run moves on, pauses, completes
\* or fails
StepReturns ==
    /\ status = "running"
    /\ \E st \in RunStatus : status' = st
    /\ \E n \in {step, step + 1} : step' = n

\* an insight run paused at select-kpi after fetch-kpis returned no KPI:
\* whatever name the actor supplies, the step throws 'KPI not found'
NoKpiFetched == At("insight", "select-kpi") /\ inputData.kpis = <<>>

\* the external actor answers a pause some resume data can advance (every
\* pause but NoKpiFetched): the run is running again
PauseAnswered == status = "suspended" /\ ~NoKpiFetched /\ status' = "running"

\* every step's tool and LLM calls return, and the actor answers every pause
\* for which resume data exists that the paused step accepts
LiveSpec ==
    /\ Init /\ [][LiveNext]_vars
    /\ WF_<<status, step>>(StepReturns)
    /\ WF_status(PauseAnswered)

----------------------------------------------------------------------------
(* select-tables resumed with indexes that are any numbers: z.number()     *)
(* admits numbers with a fractional part.  A number is written in halves:  *)
(* h stands for h / 2, so 1 is 0.5 and 4 is 2.                             *)

\* -0.5, 0.5, 2, 2.5, 3
NumberValues == {-1, 1, 4, 5, 6}

NumberResumeSchema == [selectedTableIndexes : SeqsUpTo(NumberValues, MaxSel)]

\* a[h / 2] of JavaScript: undefined unless h / 2 is an index of a
ArrayAt(a, h) ==
    IF h % 2 = 0 /\ (h \div 2) + 1 \in 1..Len(a) THEN Some(a[(h \div 2) + 1])
    ELSE None

\* selectTablesStep.execute; an element of selectedTables is a string or
\* undefined
SelectTablesStepExecuteOnNumbers(input, rd, db) ==
    LET tables == input.tables
    IN  IF rd = None \/ Get(rd).selectedTableIndexes = <<>>
        THEN Suspend([availableTables |->
                         [i \in 1..Len(tables) |-> [index |-> i - 1, name |-> tables[i]]],
                      message |-> Message("Select tables by providing their index numbers")],
                     db)
        ELSE LET selectedTableIndexes == Get(rd).selectedTableIndexes
                 Invalid(h) == h < 0 \/ h >= 2 * Len(tables)
                 invalidIndexes == SelectSeq(selectedTableIndexes, Invalid)
             IN  IF invalidIndexes # <<>>
                 THEN Throw([type |-> "Invalid table indexes",
                             indexes |-> invalidIndexes,
                             max |-> Len(tables) - 1], db, <<>>)
                 ELSE Output([selectedTables |->
                                 [j \in 1..Len(selectedTableIndexes) |->
                                     ArrayAt(tables, selectedTableIndexes[j])]],
                             db, <<>>)

IndexBasedWorkflow == {"kpi"}

SelectTablesStepOnNumbers ==
    At("kpi", "select-tables")
    /\ Run(SelectTablesStepExecuteOnNumbers(inputData, resumeData, DB))

\* run.resume of the run paused at select-tables
ResumeWithNumbers ==
    /\ status = "suspended"
    /\ At("kpi", "select-tables")
    /\ \E rd \in NumberResumeSchema : resumeData' = Some(rd)
    /\ status' = "running"
    /\ UNCHANGED <<kpi, insight, insight_id_seq, wf, step, inputData,
                   suspendPayload, result, error, calls, resumed, kpiAtStart,
                   insightAtStart>>
    /\ UNCHANGED sysvars
    /\ UNCHANGED other

SelectionNext ==
    \/ StartOf(IndexBasedWorkflow)
    \/ ListTablesStep
    \/ ResumeWithNumbers
    \/ SelectTablesStepOnNumbers

SelectionSpec == Init /\ [][SelectionNext]_vars

----------------------------------------------------------------------------
(* Tools invoked directly (by an agent or a caller of db_shared) *)

Names == {W("k1"), W("k2")}
Descriptions == {None, Some(<<>>), Some(W("d1"))}
Formulas == {W(SelectSales), W("x")}
TableArgs == {None, Some(<<>>), Some(<<"public", Dot, "sales">>)}
ColumnArgs == {None, Some(<< <<"public", Dot, "sales", Dot, "amount">> >>)}

KpiArgs ==
    [name : Names, description : Descriptions, formula : Formulas,
     table : TableArgs, columns : ColumnArgs]

CallSaveKPI ==
    \E context \in KpiArgs :
        LET res == SaveKPITool(context, DB)
        IN  /\ kpi' = res.db.kpi
            /\ calls' = <<[tool |-> "save-kpi", context |-> context]>>
            /\ kpiAtStart' = kpi
            /\ insightAtStart' = insight
            /\ UNCHANGED <<insight, insight_id_seq, wf, step, status, inputData,
                           resumeData, suspendPayload, result, error, resumed>>
            /\ UNCHANGED sysvars
            /\ UNCHANGED other

CallInsertKPI ==
    \E context \in KpiArgs :
        LET data == [name |-> context.name, description |-> context.description,
                     formula |-> context.formula, table_name |-> context.table,
                     columns |-> context.columns]
            res == InsertKPI(data, DB)
        IN  /\ kpi' = res.db.kpi
            /\ calls' = <<[tool |-> "insertKPI", context |-> context]>>
            /\ kpiAtStart' = kpi
            /\ insightAtStart' = insight
            /\ UNCHANGED <<insight, insight_id_seq, wf, step, status, inputData,
                           resumeData, suspendPayload, result, error, resumed>>
            /\ UNCHANGED sysvars
            /\ UNCHANGED other

ToolInit ==
    /\ InitWf
    /\ Started
    /\ kpi = {}
    /\ insight = <<>>
    /\ insight_id_seq = 1
    /\ kpiAtStart = {}
    /\ insightAtStart = <<>>

ToolNext == CallSaveKPI \/ CallInsertKPI

ToolSpec == ToolInit /\ [][ToolNext]_vars

----------------------------------------------------------------------------
(* Startup: ensureTables, the init-db script and the composition root      *)

\* the statements of ensureTables, in the order it awaits them
EnsureTablesStatements ==
    <<"CREATE TABLE IF NOT EXISTS kpi", "CREATE TABLE IF NOT EXISTS insight",
      "ALTER TABLE kpi ADD COLUMN IF NOT EXISTS table_name",
      "ALTER TABLE kpi ADD COLUMN IF NOT EXISTS columns">>

\* variant: ADD COLUMN without IF NOT EXISTS adding the column again
ApplyStatementNoGuard(stmt, cat) ==
    IF stmt = "CREATE TABLE IF NOT EXISTS kpi"
    THEN IF cat.kpi = <<>> THEN [cat EXCEPT !.kpi = KpiColumns] ELSE cat
    ELSE IF stmt = "CREATE TABLE IF NOT EXISTS insight"
    THEN IF cat.insight = <<>> THEN [cat EXCEPT !.insight = InsightColumns] ELSE cat
    ELSE IF stmt = "ALTER TABLE kpi ADD COLUMN IF NOT EXISTS table_name"
    THEN [cat EXCEPT !.kpi = Append(@, "table_name")]
    ELSE [cat EXCEPT !.kpi = Append(@, "columns")]

\* the schema after one statement of ensureTables
ApplyStatement(stmt, cat) ==
    IF stmt = "CREATE TABLE IF NOT EXISTS kpi"
    THEN IF cat.kpi = <<>> THEN [cat EXCEPT !.kpi = KpiColumns] ELSE cat
    ELSE IF stmt = "CREATE TABLE IF NOT EXISTS insight"
    THEN IF cat.insight = <<>> THEN [cat EXCEPT !.insight = InsightColumns] ELSE cat
    ELSE IF stmt = "ALTER TABLE kpi ADD COLUMN IF NOT EXISTS table_name"
    THEN IF Includes(cat.kpi, "table_name") THEN cat
         ELSE [cat EXCEPT !.kpi = Append(@, "table_name")]
    ELSE IF Includes(cat.kpi, "columns") THEN cat
         ELSE [cat EXCEPT !.kpi = Append(@, "columns")]

RECURSIVE ApplyStatements(_, _)
ApplyStatements(stmts, cat) ==
    IF stmts = <<>> THEN cat
    ELSE ApplyStatements(Tail(stmts), ApplyStatement(Head(stmts), cat))

\* ensureTables when the database serves the first `done` statements and
\* fails after them (the connection, or the next statement, is refused): the
\* statements run outside a transaction, what was applied stays
EnsureTables(cat, done) ==
    [ok |-> done = Len(EnsureTablesStatements),
     catalog |-> ApplyStatements(SubSeq(EnsureTablesStatements, 1, done), cat)]

\* variant: the script exits with 0 whatever ensureTables did
ExitCodeZero(ok) == 0

\* process.exit(0) in the try block, process.exit(1) in the catch block
ExitCodeOf(ok) == IF ok THEN 0 ELSE 1

EnsureCall(res) == [tool |-> "ensureTables", ok |-> res.ok]

\* ensureTables called by itself
CallEnsureTables ==
    \E done \in 0..Len(EnsureTablesStatements) :
        LET res == EnsureTables(catalog, done)
        IN  /\ catalog' = res.catalog
            /\ calls' = <<EnsureCall(res)>>
            /\ UNCHANGED <<exitCode, log, mastra>>
            /\ UNCHANGED dbvars
            /\ UNCHANGED wfvars

\* init-db.ts
InitDatabase ==
    \E done \in 0..Len(EnsureTablesStatements) :
        LET res == EnsureTables(catalog, done)
        IN  /\ catalog' = res.catalog
            /\ calls' = <<EnsureCall(res)>>
            /\ log' = IF res.ok
                      THEN <<"Initializing database tables...",
                             "Database tables created successfully!",
                             "  - kpi table", "  - insight table">>
                      ELSE <<"Initializing database tables...",
                             "Failed to initialize database:">>
            /\ exitCode' = Some(ExitCodeOf(res.ok))
            /\ UNCHANGED mastra
            /\ UNCHANGED dbvars
            /\ UNCHANGED wfvars

\* mastra.ts: ensureTables().catch(log); export const mastra = new Mastra(...)
MastraStartup ==
    \E done \in 0..Len(EnsureTablesStatements) :
        LET res == EnsureTables(catalog, done)
        IN  /\ catalog' = res.catalog
            /\ calls' = <<EnsureCall(res)>>
            /\ log' = IF res.ok THEN <<>>
                      ELSE <<"Failed to initialize database tables:">>
            /\ mastra' = TRUE
            /\ UNCHANGED exitCode
            /\ UNCHANGED dbvars
            /\ UNCHANGED wfvars

\* a kpi table created before table_name and columns were introduced
LegacyKpiColumns == <<"name", "description", "formula", "created_at">>

LegacyKpi ==
    [name |-> W("k1"), description |-> Some(W("d0")),
     formula |-> Some(W(SelectSales)), table_name |-> None, columns |-> None]

LegacyInsight ==
    [id |-> 1, name |-> W("i0"), description |-> None, kpi_name |-> Some(W("k1")),
     formula |-> Some(W("sales are flat")), schedule |-> None, exec_time |-> None,
     alert_high |-> None, alert_low |-> None]

\* the database states a process starts on: no tables, a legacy kpi table
\* (alone, or with insight), both tables as ensureTables leaves them
StartupDBs ==
    { [catalog |-> [kpi |-> <<>>, insight |-> <<>>],
       kpi |-> {}, insight |-> <<>>, insight_id_seq |-> 1],
      [catalog |-> [kpi |-> LegacyKpiColumns, insight |-> <<>>],
       kpi |-> {}, insight |-> <<>>, insight_id_seq |-> 1],
      [catalog |-> [kpi |-> LegacyKpiColumns, insight |-> <<>>],
       kpi |-> {LegacyKpi}, insight |-> <<>>, insight_id_seq |-> 1],
      [catalog |-> [kpi |-> LegacyKpiColumns, insight |-> InsightColumns],
       kpi |-> {LegacyKpi}, insight |-> <<LegacyInsight>>, insight_id_seq |-> 2] }
    \cup { [catalog |-> FullCatalog, kpi |-> db.kpi, insight |-> db.insight,
            insight_id_seq |-> db.insight_id_seq] : db \in InitialDBs }

StartupInit ==
    /\ InitWf
    /\ exitCode = None
    /\ log = <<>>
    /\ mastra = FALSE
    /\ \E db \in StartupDBs :
        /\ catalog = db.catalog
        /\ kpi = db.kpi
        /\ insight = db.insight
        /\ insight_id_seq = db.insight_id_seq
        /\ kpiAtStart = db.kpi
        /\ insightAtStart = db.insight

StartupNext == CallEnsureTables \/ InitDatabase \/ MastraStartup

StartupSpec == StartupInit /\ [][StartupNext]_vars

----------------------------------------------------------------------------
(* The database tools invoked directly, one call at a time, on tables that *)
(* hold rows of earlier runs                                               *)

SqlTexts ==
    { W(SelectSales),
      <<Space, SelectSales, Semi, "\n">>,
      <<SelectSales, Semi, Semi>>,
      <<SelectSales, Space, "LIMIT", Space, "7">>,
      <<SelectSales, Space, Comment>>,
      W(InsertCte), W(DeleteCte), W(DeleteK1Cte),
      W(UpdateKpi), <<UpdateKpi, Space, Comment>>,
      <<>> }

LimitArgs == {None, Some(0), Some(2)}

\* z.number().optional().default(5), and `sample = 5`
WithDefault(limit) == IF limit = None THEN DefaultLimit ELSE Get(limit)

DbKpiArgs ==
    [name : Names, description : {None}, formula : {W("x")}, table : {None},
     columns : {None}]

DbInsightArgs ==
    [name : {W("i1")}, description : {None},
     kpi_name : {Some(W("k1")), Some(W("k2"))}, formula : {W("t")},
     schedule : {None}, exec_time : {None}, alert_high : {None},
     alert_low : {None}]

ListColumnsArgs == {SalesTable, W("kpi"), NopeTable}

UpsertTools == {"save-kpi", "insertKPI"}
FetchTools == {"fetch-kpis", "fetchKPIs"}

\* what a direct call leaves of the workflow and process state
DirectCall(call) ==
    /\ calls' = <<call>>
    /\ UNCHANGED <<wf, step, status, inputData, resumeData, suspendPayload,
                   result, error, resumed, kpiAtStart, insightAtStart>>
    /\ UNCHANGED sysvars
    /\ UNCHANGED other

DbWrite(db) ==
    /\ kpi' = db.kpi
    /\ insight' = db.insight
    /\ insight_id_seq' = db.insight_id_seq

CallRunQuery ==
    \E sql \in SqlTexts, limit \in LimitArgs :
        LET res == RunQueryTool([sql |-> sql, limit |-> WithDefault(limit)], DB)
        IN  /\ DbWrite(res.db)
            /\ DirectCall([tool |-> "run-query", sql |-> sql, limit |-> limit,
                           sent |-> res.sent, ok |-> res.ok, rows |-> res.rows])

CallRunQueryShared ==
    \E sql \in SqlTexts, sample \in LimitArgs :
        LET res == RunQuery(sql, WithDefault(sample), DB)
        IN  /\ DbWrite(res.db)
            /\ DirectCall([tool |-> "runQuery", sql |-> sql, limit |-> sample,
                           sent |-> res.sent, ok |-> res.ok, rows |-> res.rows])

CallSaveKPIRow ==
    \E context \in DbKpiArgs :
        LET res == SaveKPITool(context, DB)
        IN  /\ DbWrite(res.db)
            /\ DirectCall([tool |-> "save-kpi", context |-> context])

CallSaveInsight ==
    /\ insight_id_seq <= MaxInsights
    /\ \E context \in DbInsightArgs :
        LET res == SaveInsightTool(context, DB)
        IN  /\ DbWrite(res.db)
            /\ DirectCall([tool |-> "save-insight", context |-> context,
                           ok |-> res.ok])

CallFetchKPIs ==
    /\ UNCHANGED dbvars
    /\ DirectCall([tool |-> "fetch-kpis", kpis |-> FetchKPIsTool(DB).kpis])

CallListTables ==
    /\ UNCHANGED dbvars
    /\ DirectCall([tool |-> "list-tables", tables |-> ListTablesTool.tables])

CallListColumns ==
    \E table \in ListColumnsArgs :
        /\ UNCHANGED dbvars
        /\ DirectCall([tool |-> "list-columns", table |-> table,
                       columns |-> ListColumnsTool([table |-> table]).columns])

DbInit ==
    /\ InitWf
    /\ Started
    /\ \E db \in InitialDBs :
        /\ kpi = db.kpi
        /\ insight = db.insight
        /\ insight_id_seq = db.insight_id_seq
        /\ kpiAtStart = db.kpi
        /\ insightAtStart = db.insight

DbNext ==
    \/ CallRunQuery
    \/ CallRunQueryShared
    \/ CallSaveKPIRow
    \/ CallSaveInsight
    \/ CallFetchKPIs
    \/ CallListTables
    \/ CallListColumns
    \/ CallEnsureTables

DbSpec == DbInit /\ [][DbNext]_vars

----------------------------------------------------------------------------
(* KPI persistence: upserts followed by fetch-all, through the tools and   *)
(* through db_shared                                                       *)

\* fetchKPIs of db_shared
FetchKPIs(db) ==
    LET rows == OrderByName(db.kpi, NameOrder)
    IN  [i \in 1..Len(rows) |->
            [name |-> rows[i].name,
             formula |-> rows[i].formula,
             table_name |-> rows[i].table_name,
             columns |-> IF rows[i].columns # None
                         THEN Some(FromJsonb(Get(rows[i].columns)))
                         ELSE None]]

AmountColumn == SalesTable \o <<Dot, "amount">>
QuotedColumn == <<"sales", Dot, Quote, "unit", Backslash, "price", Quote>>

RoundTripColumns ==
    {None, Some(<<>>), Some(<<AmountColumn, QuotedColumn>>),
     Some(<<QuotedColumn, AmountColumn>>)}

RoundTripArgs ==
    [name : Names, description : {None}, formula : {<<>>, W("x")},
     table : TableArgs, columns : RoundTripColumns]

\* the upsert the last fetch-all follows, if any
LastUpsertCall ==
    IF calls # <<>> /\ calls[1].tool \in UpsertTools THEN <<calls[1]>> ELSE <<>>

CallUpsertKPI ==
    \E context \in RoundTripArgs :
        LET res == SaveKPITool(context, DB)
        IN  /\ DbWrite(res.db)
            /\ DirectCall([tool |-> "save-kpi", context |-> context])

CallUpsertKPIShared ==
    \E context \in RoundTripArgs :
        LET data == [name |-> context.name, description |-> context.description,
                     formula |-> context.formula, table_name |-> context.table,
                     columns |-> context.columns]
            res == InsertKPI(data, DB)
        IN  /\ DbWrite(res.db)
            /\ DirectCall([tool |-> "insertKPI", context |-> context])

\* DirectCall, keeping the upsert the fetch follows in the log
FetchCall(call) ==
    /\ calls' = LastUpsertCall \o <<call>>
    /\ UNCHANGED <<wf, step, status, inputData, resumeData, suspendPayload,
                   result, error, resumed, kpiAtStart, insightAtStart>>
    /\ UNCHANGED sysvars
    /\ UNCHANGED other

CallFetchAll ==
    /\ UNCHANGED dbvars
    /\ FetchCall([tool |-> "fetch-kpis", kpis |-> FetchKPIsTool(DB).kpis])

CallFetchAllShared ==
    /\ UNCHANGED dbvars
    /\ FetchCall([tool |-> "fetchKPIs", kpis |-> FetchKPIs(DB)])

RoundTripNext ==
    \/ CallUpsertKPI
    \/ CallUpsertKPIShared
    \/ CallFetchAll
    \/ CallFetchAllShared

RoundTripSpec == DbInit /\ [][RoundTripNext]_vars

----------------------------------------------------------------------------
(* Insight persistence: save-insight of db_tools, and save-insight of      *)
(* db_insight_tools, which goes through insertInsight of db_shared         *)

\* insertInsight of db_shared
InsertInsight(data, db) ==
    LET row == [id |-> db.insight_id_seq,
                name |-> data.name,
                description |-> OrNull(data.description),
                kpi_name |-> OrNull(data.kpi_name),
                formula |-> Some(data.formula),
                schedule |-> OrNull(data.schedule),
                exec_time |-> OrNull(data.exec_time),
                alert_high |-> NumOrNull(data.alert_high),
                alert_low |-> NumOrNull(data.alert_low)]
        fkOk == \A n \in row.kpi_name : \E r \in db.kpi : r.name = n
    IN  IF fkOk
        THEN [ok |-> TRUE,
              db |-> [db EXCEPT !.insight = Append(@, row),
                                !.insight_id_seq = @ + 1]]
        ELSE [ok |-> FALSE, db |-> [db EXCEPT !.insight_id_seq = @ + 1]]

\* `x ?? undefined`: null becomes undefined, both are the absent value here
OrUndefined(o) == o

\* save-insight of db_insight_tools
SaveInsightToolShared(context, db) ==
    LET res == InsertInsight([name |-> context.name,
                              description |-> OrUndefined(context.description),
                              kpi_name |-> OrUndefined(context.kpi_name),
                              formula |-> context.formula,
                              schedule |-> OrUndefined(context.schedule),
                              exec_time |-> OrUndefined(context.exec_time),
                              alert_high |-> OrUndefined(context.alert_high),
                              alert_low |-> OrUndefined(context.alert_low)], db)
    IN  [ok |-> res.ok, success |-> res.ok, db |-> res.db]

AlertHighArgs == {None, Some(0), Some(5)}
AlertLowArgs == {None, Some(0)}

InsightArgs ==
    [name : {W("i1")}, description : {None, Some(<<>>), Some(W("d1"))},
     kpi_name : {None, Some(W("k1"))}, formula : {W("t")},
     schedule : {None}, exec_time : {None}, alert_high : AlertHighArgs,
     alert_low : AlertLowArgs]

InsightSaveTools == {"save-insight", "insertInsight"}

CallSaveInsightTool ==
    /\ insight_id_seq <= MaxInsights
    /\ \E context \in InsightArgs :
        LET res == SaveInsightTool(context, DB)
        IN  /\ DbWrite(res.db)
            /\ DirectCall([tool |-> "save-insight", context |-> context,
                           ok |-> res.ok])

CallSaveInsightShared ==
    /\ insight_id_seq <= MaxInsights
    /\ \E context \in InsightArgs :
        LET res == SaveInsightToolShared(context, DB)
        IN  /\ DbWrite(res.db)
            /\ DirectCall([tool |-> "insertInsight", context |-> context,
                           ok |-> res.ok])

InsightNext == CallSaveInsightTool \/ CallSaveInsightShared

InsightSpec == DbInit /\ [][InsightNext]_vars

----------------------------------------------------------------------------
(* C1: after any sequence of KPI upserts the kpi table holds at most one   *)
(* row per name; an upsert of an existing name overwrites description,     *)
(* formula, table_name and columns of that row and adds no row.  Values    *)
(* that are absent, and description / table values that are the empty      *)
(* string, are stored as null.                                             *)

UniqueNames == \A r1, r2 \in kpi : r1.name = r2.name => r1 = r2

LastUpsert == calls[Len(calls)].context

IsUpsert == calls # <<>> /\ calls[Len(calls)].tool \in {"save-kpi", "insertKPI"}

RowsNamed(rows, n) == {r \in rows : r.name = n}

UpsertFrame ==
    /\ Cardinality(RowsNamed(kpi, LastUpsert.name)) = 1
    /\ {r \in kpi : r.name # LastUpsert.name}
            = {r \in kpiAtStart : r.name # LastUpsert.name}
    /\ \A r \in RowsNamed(kpi, LastUpsert.name) :
            /\ r.formula = Some(LastUpsert.formula)
            /\ r.columns = {[json |-> c] : c \in LastUpsert.columns}

C1_UpsertOverwrites ==
    /\ UniqueNames
    /\ IsUpsert =>
        /\ UpsertFrame
        /\ \A r \in RowsNamed(kpi, LastUpsert.name) :
            /\ r.description = (IF LastUpsert.description = Some(<<>>)
                                 THEN None ELSE LastUpsert.description)
            /\ r.table_name = (IF LastUpsert.table = Some(<<>>)
                                THEN None ELSE LastUpsert.table)

\* C1 as stated: every supplied value is stored, only absent ones become null
C1_AsStated ==
    /\ UniqueNames
    /\ IsUpsert =>
        /\ UpsertFrame
        /\ \A r \in RowsNamed(kpi, LastUpsert.name) :
            /\ r.description = LastUpsert.description
            /\ r.table_name = LastUpsert.table

\* an upsert hit an existing name and changed that row's four columns
C1_Witness ==
    /\ IsUpsert
    /\ \E old \in RowsNamed(kpiAtStart, LastUpsert.name) :
        \E new \in RowsNamed(kpi, LastUpsert.name) :
            /\ old.description # new.description
            /\ old.formula # new.formula
            /\ old.table_name # new.table_name
            /\ old.columns # new.columns
            /\ new.description = None
            /\ Cardinality(kpi) = Cardinality(kpiAtStart)
            /\ Cardinality(kpi) = 2

----------------------------------------------------------------------------
(* Vocabulary of the workflow claims *)

StepId == Steps(wf)[step]

Executing == status = "running"

FirstExecution == Executing /\ HasResumeSchema(StepId) /\ resumeData = None

Resumed == Executing /\ resumeData # None

ToolsCalled == {calls[i].tool : i \in 1..Len(calls)}

PersistTools == {"save-kpi", "save-insight"}

QueryTools == {"run-query"}

PersistCalls == {i \in 1..Len(calls) : calls[i].tool \in PersistTools}

TablesAsAtStart == kpi = kpiAtStart /\ insight = insightAtStart

ValidationErrors ==
    {"Invalid table indexes", "Table not found in selected tables",
     "Invalid column index",
     "Either AI generation with intent or manual SQL must be provided",
     "Provide either sqlIntent (with useAI=true) or manualSQL (with useAI=false)",
     "KPI not found"}

SqlResolutionErrors ==
    {"Either AI generation with intent or manual SQL must be provided",
     "Provide either sqlIntent (with useAI=true) or manualSQL (with useAI=false)"}

Failed(types) == status = "failed" /\ \E e \in error : e.type \in types

----------------------------------------------------------------------------
(* C2: a step with a resume schema that is executed without resume data    *)
(* pauses: it emits the suspend payload its suspend schema declares, built *)
(* from the step's input only, produces no output, calls no tool and       *)
(* changes no table.                                                       *)

Indexed(a) == [i \in 1..Len(a) |-> [index |-> i - 1] @@ a[i]]

DeclaredSuspend(id, input) ==
    IF id = "select-tables"
    THEN [availableTables |-> [i \in 1..Len(input.tables) |->
                                  [index |-> i - 1, name |-> input.tables[i]]],
          message |-> Message("Select tables by providing their index numbers")]
    ELSE IF id = "select-columns-details"
    THEN [availableColumns |-> [t \in Range(input.selectedTables) |->
                                   Indexed(input.columns[t])],
          message |-> Message("Provide: selectedColumnsByTable, kpiName, kpiDescription, useAIGeneration, sqlIntent OR manualSQL")]
    ELSE IF id = "confirm-save"
    THEN [sqlQuery |-> input.sqlQuery, previewResults |-> input.previewResults,
          message |-> Message("Review the SQL query and results. Confirm to save or provide edited SQL.")]
    ELSE IF id = "select-table"
    THEN [tables |-> input.tables,
          message |-> Message("Select a table by providing the full table name")]
    ELSE IF id = "define-kpi"
    THEN [tableName |-> input.tableName, columns |-> input.columns,
          message |-> Message("Provide: kpiName, kpiDescription, useAI, and either sqlIntent OR manualSQL")]
    ELSE IF id = "save-kpi"
    THEN [sqlQuery |-> input.sqlQuery, preview |-> input.preview,
          message |-> Message("Review the SQL and preview. Set confirmed=true to save, or provide editedSQL to modify")]
    ELSE IF id = "select-kpi"
    THEN [availableKPIs |-> [i \in 1..Len(input.kpis) |-> [name |-> input.kpis[i].name]],
          message |-> Message("Select a KPI and provide insight name and description")]
    ELSE [insightText |-> input.insightText,
          message |-> Message("Review the generated insight. Confirm to save or provide edited version.")]

C2_NoResumeDataPauses ==
    [][ FirstExecution =>
          /\ status' = "suspended"
          /\ suspendPayload' = Some(DeclaredSuspend(StepId, inputData))
          /\ UNCHANGED <<kpi, insight, insight_id_seq, calls, result, error,
                         step, inputData>> ]_vars

\* a run is paused at the confirmation step of the index-based workflow on a
\* preview of rows, nothing saved
C2_Witness ==
    /\ At("kpi", "confirm-save")
    /\ status = "suspended"
    /\ resumed[step] = None
    /\ \E p \in suspendPayload : Len(p.previewResults) = 5
    /\ "save-kpi" \notin ToolsCalled

----------------------------------------------------------------------------
(* C3: resuming a paused step with a payload that conforms to its resume   *)
(* schema makes the step advance (to its output or to an error) exactly    *)
(* when the fields its guard tests are truthy: confirmed = true, a         *)
(* non-empty index array, a non-empty tableName, a non-empty kpiName (and  *)
(* insightName).  On every other conforming payload the step pauses again  *)
(* with the same suspend payload.                                          *)

PassesGuard(id, rd) ==
    IF id = "select-tables" THEN rd.selectedTableIndexes # <<>>
    ELSE IF id \in {"select-columns-details", "define-kpi"} THEN rd.kpiName # <<>>
    ELSE IF id = "select-table" THEN rd.tableName # <<>>
    ELSE IF id = "select-kpi" THEN rd.kpiName # <<>> /\ rd.insightName # <<>>
    ELSE rd.confirmed

C3_ResumeAdvancesIffGuard ==
    [][ Resumed =>
          /\ (status' = "suspended") <=> ~PassesGuard(StepId, Get(resumeData))
          /\ status' = "suspended" =>
                /\ suspendPayload' = suspendPayload
                /\ UNCHANGED <<kpi, insight, insight_id_seq, calls, step, inputData>> ]_vars

\* C3 as stated: a conforming resume payload never pauses the step again
C3_AsStated == [][ Resumed => status' # "suspended" ]_vars

\* every pause of a name-based run was resumed and the run completed
C3_Witness ==
    /\ wf = "simple"
    /\ status = "success"
    /\ resumed[2] # None /\ resumed[4] # None /\ resumed[6] # None

----------------------------------------------------------------------------
(* C4: the persisting tool is invoked only in the last step of a run, only *)
(* after the preview / query step of that run executed and after the last  *)
(* step was resumed with confirmed = true, and at most once per run.       *)
(* Before that point the tables are as they were when the run started,     *)
(* unless the SQL text that the preview / query step executed is itself a  *)
(* data-modifying statement.                                               *)

DataModifying == {InsertCte, DeleteCte, DeleteK1Cte, UpdateKpi}

RanDataModifyingSql ==
    \E i \in 1..Len(calls) :
        calls[i].tool \in QueryTools /\ calls[i].sent[1] \in DataModifying

PersistOrder ==
    /\ Cardinality(PersistCalls) <= 1
    /\ \A i \in PersistCalls :
        /\ i = Len(calls)
        /\ step = Len(Steps(wf))
        /\ status \in {"success", "failed"}
        /\ \E rd \in resumeData : rd.confirmed
        /\ \E j \in 1..(i - 1) : calls[j].tool \in QueryTools /\ calls[j].ok

----------------------------------------------------------------------------
(* C5: when a step raises an input-validation error the run ends failed,   *)
(* no later step of the run executes, and the kpi and insight tables are   *)
(* as they were when the run started.                                      *)

C5_Inv ==
    /\ error # None => status = "failed"
    /\ Failed(ValidationErrors) =>
        /\ TablesAsAtStart
        /\ ToolsCalled \cap (QueryTools \cup PersistTools) = {}

C5_ValidationErrorAborts ==
    /\ []C5_Inv
    /\ [][ status = "failed" => FALSE ]_vars

\* an unknown KPI name failed an insight run over non-empty tables
C5_Witness ==
    /\ Failed({"KPI not found"})
    /\ kpi # {} /\ insight # <<>>
    /\ At("insight", "select-kpi")

----------------------------------------------------------------------------
(* C6: in the index-based workflow a selection with indexes outside        *)
(* [0, N) raises a validation error that names every invalid index.        *)

InvalidIn(indexes, n) == {indexes[i] : i \in {j \in 1..Len(indexes) : indexes[j] < 0 \/ indexes[j] >= n}}

InvalidColumnIndexes(entries, columns) ==
    UNION { InvalidIn(entries[i].indexes, Len(columns[entries[i].table])) :
              i \in {j \in 1..Len(entries) : entries[j].table \in DOMAIN columns} }

C6_TableErrorNamesAll ==
    (At("kpi", "select-tables") /\ Failed({"Invalid table indexes"})) =>
        Range(Get(error).indexes)
            = InvalidIn(Get(resumeData).selectedTableIndexes, Len(inputData.tables))

\* C6 as stated, for the column selection
C6_AsStated ==
    /\ C6_TableErrorNamesAll
    /\ (At("kpi", "select-columns-details") /\ Failed({"Invalid column index"})) =>
          Range(Get(error).indexes)
              = InvalidColumnIndexes(Get(resumeData).selectedColumnsByTable,
                                     inputData.columns)

----------------------------------------------------------------------------
(* C7: in the index-based workflow, resuming the table selection with an   *)
(* empty index list pauses the step again with the same suspend payload,   *)
(* and resuming the column selection with no column index (a non-empty     *)
(* kpiName, keys among the selected tables) proceeds to generate-sql with  *)
(* an empty selectedColumns; neither fails the run.                        *)

EmptyTableSelection ==
    Resumed /\ At("kpi", "select-tables")
    /\ Get(resumeData).selectedTableIndexes = <<>>

NoColumnIndexes(entries) == \A i \in 1..Len(entries) : entries[i].indexes = <<>>

EmptyColumnSelection ==
    Resumed /\ At("kpi", "select-columns-details")
    /\ NoColumnIndexes(Get(resumeData).selectedColumnsByTable)

KeysSelected(entries, columns) ==
    \A i \in 1..Len(entries) : entries[i].table \in DOMAIN columns

C7_EmptySelectionDoesNotFail ==
    [][ /\ EmptyTableSelection =>
            /\ status' = "suspended"
            /\ suspendPayload' = suspendPayload
            /\ error' = None
        /\ ( /\ EmptyColumnSelection
             /\ Get(resumeData).kpiName # <<>>
             /\ KeysSelected(Get(resumeData).selectedColumnsByTable, inputData.columns) ) =>
            /\ status' = "running"
            /\ step' = step + 1
            /\ inputData'.selectedColumns = <<>>
            /\ error' = None ]_vars

\* C7 as stated: an empty selection fails the run
C7_AsStated ==
    [][ (EmptyTableSelection \/ EmptyColumnSelection) => status' = "failed" ]_vars

\* generate-sql reached with an empty column selection given for a table
C7_Witness ==
    /\ At("kpi", "generate-sql")
    /\ inputData.selectedColumns = <<>>
    /\ \E rd \in resumed[4] :
        /\ rd.selectedColumnsByTable # <<>>
        /\ NoColumnIndexes(rd.selectedColumnsByTable)

----------------------------------------------------------------------------
(* C8: in both KPI workflows, when the resume data supplies neither a      *)
(* non-empty AI intent nor non-empty literal SQL, SQL resolution raises an *)
(* error, for either value of the use-AI flag: no SQL is executed for      *)
(* preview and no KPI is saved.                                            *)

Neither(d) == ~Truthy(d.sqlIntent) /\ ~Truthy(d.manualSQL)

ResolvingNeither ==
    \/ Executing /\ At("kpi", "generate-sql") /\ Neither(inputData)
    \/ /\ Resumed /\ At("simple", "define-kpi")
       /\ Get(resumeData).kpiName # <<>>
       /\ Neither(Get(resumeData))

SuppliedNeither ==
    \/ wf = "kpi" /\ step >= 5 /\ \E d \in resumed[4] : Neither(d)
    \/ wf = "simple" /\ step >= 4 /\ \E d \in resumed[4] : Neither(d)

C8_NeitherIntentNorSql ==
    /\ [][ ResolvingNeither =>
             /\ status' = "failed"
             /\ \E e \in error' : e.type \in SqlResolutionErrors
             /\ UNCHANGED <<kpi, insight, insight_id_seq, calls>> ]_vars
    /\ [](SuppliedNeither =>
             /\ ToolsCalled \cap (QueryTools \cup PersistTools \cup {"generate-sql"}) = {}
             /\ TablesAsAtStart
             /\ status \in {"running", "failed"})

\* SQL resolution failed an index-based run that asked for AI generation
C8_Witness ==
    /\ At("kpi", "generate-sql")
    /\ Failed(SqlResolutionErrors)
    /\ inputData.useAIGeneration
    /\ inputData.sqlIntent = Some(<<>>)
    /\ inputData.manualSQL = None

----------------------------------------------------------------------------
(* C9: in the insight workflow, resuming select-kpi with a non-empty       *)
(* insightName and a non-empty kpiName that is not the name of a fetched   *)
(* KPI raises an error; when the step produces output, the kpiFormula it   *)
(* passes on is the formula of the fetched KPI with exactly that name.     *)

FetchedNames == {inputData.kpis[i].name : i \in 1..Len(inputData.kpis)}

UnknownKpiSelected ==
    Resumed /\ At("insight", "select-kpi")
    /\ Get(resumeData).kpiName \notin FetchedNames

FormulaOfSelected ==
    (At("insight", "select-kpi") /\ status' = "running" /\ step' = step + 1) =>
        /\ inputData'.kpiName = Get(resumeData).kpiName
        /\ \E i \in 1..Len(inputData.kpis) :
            /\ inputData.kpis[i].name = inputData'.kpiName
            /\ inputData.kpis[i].formula = inputData'.kpiFormula

C9_UnknownKpiIsError ==
    [][ /\ ( /\ UnknownKpiSelected
             /\ Get(resumeData).kpiName # <<>>
             /\ Get(resumeData).insightName # <<>> ) =>
            /\ status' = "failed"
            /\ \E e \in error' : e.type = "KPI not found"
        /\ FormulaOfSelected ]_vars

\* C9 as stated: every kpiName outside the fetched list raises
C9_AsStated ==
    [][ /\ UnknownKpiSelected => status' = "failed"
        /\ FormulaOfSelected ]_vars

\* the second of two fetched KPIs was selected and its formula passed on
C9_Witness ==
    /\ At("insight", "execute-kpi-query")
    /\ inputData.kpiName = W("k2")
    /\ inputData.kpiFormula = Some(W(DeleteCte))

----------------------------------------------------------------------------
(* C10: an index-based run that selects valid tables and columns, names    *)
(* the KPI N, takes manual SQL S, and is confirmed without edited SQL      *)
(* previews S with a cap of 5 rows and ends with exactly one kpi row named *)
(* N, whose formula is S.                                                  *)

ManualRunConfirmed ==
    /\ wf = "kpi"
    /\ status = "success"
    /\ \E d \in resumed[4] :
        Truthy(d.manualSQL) /\ ~(d.useAIGeneration /\ Truthy(d.sqlIntent))
    /\ \E c \in resumed[7] : c.confirmed /\ c.editedSQL = None

LimitClause(n) == <<Space, "LIMIT", Space, ToString(n), Semi>>

----------------------------------------------------------------------------
(* C11: an insight run that selects an existing KPI K and an insight name, *)
(* and is confirmed with confirmed = true and no edited text, inserts      *)
(* exactly one insight row; that row's kpi_name is K's name and its        *)
(* formula text is not empty, whatever text the LLM returned.              *)

InsightRunConfirmed ==
    /\ wf = "insight"
    /\ step = 5
    /\ status \in {"success", "failed"}
    /\ \E c \in resumed[5] : c.confirmed /\ c.editedInsight = None

NewInsightRows == SubSeq(insight, Len(insightAtStart) + 1, Len(insight))

\* C11 as stated
C11_AsStated ==
    InsightRunConfirmed =>
        /\ Len(NewInsightRows) = 1
        /\ NewInsightRows[1].kpi_name = Some(Get(resumed[2]).kpiName)
        /\ Truthy(NewInsightRows[1].formula)

----------------------------------------------------------------------------
(* C19: in all three workflows, when the confirmation step is resumed with *)
(* confirmed = true, the text persisted as formula is the edited text      *)
(* (editedSQL / editedInsight) when a non-empty one is supplied, and       *)
(* otherwise (none, or the empty string) the text shown in the step's      *)
(* suspend payload.                                                        *)

ConfirmedAtLastStep ==
    /\ Resumed
    /\ StepId \in {"confirm-save", "save-kpi", "confirm-save-insight"}
    /\ Get(resumeData).confirmed

EditedText == IF wf = "insight" THEN Get(resumeData).editedInsight
              ELSE Get(resumeData).editedSQL

ShownText == IF wf = "insight" THEN Get(suspendPayload).insightText
             ELSE Get(suspendPayload).sqlQuery

\* the formula the confirmed step persisted is text
PersistedIs(text) ==
    IF wf = "insight"
    THEN status' = "success" =>
            /\ Len(insight') = Len(insight) + 1
            /\ insight'[Len(insight')].formula = Some(text)
    ELSE /\ status' = "success"
         /\ \E r \in kpi' : r.name = inputData.kpiName
         /\ \A r \in kpi' : r.name = inputData.kpiName => r.formula = Some(text)

C19_EditedOrShownTextSaved ==
    [][ ConfirmedAtLastStep =>
          PersistedIs(IF Truthy(EditedText) THEN Get(EditedText) ELSE ShownText) ]_vars

\* C19 as stated: every supplied edited text is the one persisted
C19_AsStated ==
    [][ ConfirmedAtLastStep =>
          PersistedIs(IF EditedText # None THEN Get(EditedText) ELSE ShownText) ]_vars

\* an index-based run saved the edited SQL in place of the previewed one
C19_Witness ==
    /\ wf = "kpi"
    /\ status = "success"
    /\ Get(resumed[4]).manualSQL = Some(W(InsertCte))
    /\ Get(resumed[7]).editedSQL = Some(<<SelectSales, Semi>>)
    /\ \E r \in kpi : r.name = Get(resumed[4]).kpiName
                      /\ r.formula = Some(<<SelectSales, Semi>>)

----------------------------------------------------------------------------
(* C16: listing the columns of a table name (qualified, or unqualified and *)
(* then of schema public) that is not present in the schema returns an     *)
(* empty list and raises no error; in the name-based workflow an unknown   *)
(* table name proceeds to the define-kpi pause with an empty column list.  *)

\* the names under which the tables of the schema are known
PresentNames ==
    {InformationSchema[i].table_schema \o W(Dot) \o InformationSchema[i].table_name :
        i \in 1..Len(InformationSchema)}
    \cup {InformationSchema[i].table_name :
            i \in {j \in 1..Len(InformationSchema) :
                     InformationSchema[j].table_schema = W("public")}}

\* C16 as stated
C16_AsStated ==
    [][ /\ (Executing /\ At("simple", "get-columns")
                /\ inputData.tableName \notin PresentNames) =>
            /\ status' = "running"
            /\ inputData'.columns = <<>>
        /\ (Executing /\ At("simple", "define-kpi") /\ resumeData = None
                /\ inputData.tableName \notin PresentNames) =>
            /\ status' = "suspended"
            /\ Get(suspendPayload').columns = <<>> ]_vars

----------------------------------------------------------------------------
(* Vocabulary of the claims about direct tool calls *)

LastCall == calls[1]

IsQuery == calls # <<>> /\ calls[1].tool \in {"run-query", "runQuery"}

RowReturning == {SelectSales, InsertCte, DeleteCte, DeleteK1Cte}

\* the text is a statement the engine accepts as it is, and it returns rows
ValidRowReturning(sql) ==
    /\ Engine(sql, DB).ok
    /\ \E i \in 1..Len(sql) : sql[i] \in RowReturning

----------------------------------------------------------------------------
(* C12: bounded query execution called with row limit L (5 when none is    *)
(* given) on a syntactically valid row-returning SQL text returns rows,    *)
(* not an error, and at most L of them.                                    *)

\* C12 as stated
C12_AsStated ==
    (IsQuery /\ ValidRowReturning(LastCall.sql)) =>
        /\ LastCall.ok
        /\ Len(LastCall.rows) <= WithDefault(LastCall.limit)

----------------------------------------------------------------------------
(* C13: deleting a kpi row whose name insight rows reference succeeds and  *)
(* sets kpi_name to null on every insight row that referenced it; no       *)
(* insight row is deleted and every other column of every insight row is   *)
(* unchanged.                                                              *)

KpiNames(rows) == {r.name : r \in rows}

DeletedNames == KpiNames(kpi) \ KpiNames(kpi')

References(row, names) == \E n \in row.kpi_name : n \in names

C13_DeleteSetsNull ==
    [][ DeletedNames # {} =>
          /\ LastCall'.ok
          /\ Len(insight') = Len(insight)
          /\ \A i \in 1..Len(insight) :
                insight'[i] = IF References(insight[i], DeletedNames)
                              THEN [insight[i] EXCEPT !.kpi_name = None]
                              ELSE insight[i] ]_vars

\* k1 was deleted: the insight that referenced it has no KPI now, the one
\* that references k2 still has its own
C13_Witness ==
    /\ IsQuery
    /\ LastCall.sql = W(DeleteK1Cte)
    /\ LastCall.ok
    /\ LastCall.rows # <<>>
    /\ Len(insight) = 2
    /\ insight[1].kpi_name = None
    /\ insight[2].kpi_name = Some(W("k2"))

----------------------------------------------------------------------------
(* C14: no tool deletes a kpi or insight row or changes an existing        *)
(* insight row, and the only change to an existing kpi row is an upsert    *)
(* overwriting the row of the same name - except run-query, which runs the *)
(* SQL text as it is given: a data-modifying statement that the engine     *)
(* accepts with the LIMIT clause appended deletes or changes rows.         *)

\* every kpi row is kept as it is, but for the one an upsert overwrites
KpiRowsKept ==
    \A r \in kpi :
        \/ r \in kpi'
        \/ /\ LastCall'.tool = "save-kpi"
           /\ LastCall'.context.name = r.name
           /\ Cardinality(RowsNamed(kpi', r.name)) = 1

InsightRowsKept ==
    /\ Len(insight') >= Len(insight)
    /\ \A i \in 1..Len(insight) : insight'[i] = insight[i]

RunsDataModifyingSql(call) ==
    /\ call.tool \in {"run-query", "runQuery"}
    /\ \E i \in 1..Len(call.sql) : call.sql[i] \in DataModifying

C14_RowsKeptButByQuery ==
    [][ ~RunsDataModifyingSql(LastCall') => (KpiRowsKept /\ InsightRowsKept) ]_vars

\* C14 as stated: run-query with any SQL text keeps the rows too
C14_AsStated == [][ KpiRowsKept /\ InsightRowsKept ]_vars

\* an upsert overwrote the row of k1 while an insight referenced it
C14_Witness ==
    /\ calls # <<>>
    /\ LastCall.tool = "save-kpi"
    /\ LastCall.context.name = W("k1")
    /\ SalesKpi \in kpiAtStart /\ SalesKpi \notin kpi
    /\ PurgeKpi \in kpi
    /\ insight = <<SalesInsight>>

----------------------------------------------------------------------------
(* C20: for every SQL text s and limit L, the statement sent to the        *)
(* database by bounded query execution is s with the surrounding white     *)
(* space trimmed, then one trailing ';' removed if present (never more     *)
(* than one, and none elsewhere), followed by ' LIMIT L;' - also when s    *)
(* already ends in a LIMIT clause or is not a row-returning statement.     *)

\* core is s without the white space around it
IsTrimOf(core, s) ==
    \E i \in 1..(Len(s) + 1), j \in 0..Len(s) :
        /\ core = SubSeq(s, i, j)
        /\ \A k \in 1..(i - 1) : IsSpace(s[k])
        /\ \A k \in (j + 1)..Len(s) : IsSpace(s[k])
        /\ core # <<>> => ~IsSpace(core[1]) /\ ~IsSpace(core[Len(core)])

SentIs(s, L, sent) ==
    \E n \in 0..Len(s) :
        LET body == SubSeq(sent, 1, n)
            tail == SubSeq(sent, n + 1, Len(sent))
        IN  /\ tail = <<Space, "LIMIT", Space, ToString(L), Semi>>
            /\ \/ IsTrimOf(body, s) /\ (body = <<>> \/ body[Len(body)] # Semi)
               \/ IsTrimOf(body \o <<Semi>>, s)

C20_SentStatement ==
    IsQuery => SentIs(LastCall.sql, WithDefault(LastCall.limit), LastCall.sent)

\* of two trailing ';' one was removed, and the engine rejected the rest
C20_Witness ==
    /\ IsQuery
    /\ LastCall.sql = <<SelectSales, Semi, Semi>>
    /\ LastCall.limit = None
    /\ LastCall.sent = <<SelectSales, Semi, Space, "LIMIT", Space, "5", Semi>>
    /\ ~LastCall.ok

----------------------------------------------------------------------------
(* C17: ensureTables is idempotent: from every database state (no tables,  *)
(* a kpi table without table_name / columns, both tables with rows) a run  *)
(* that completes leaves a schema that further runs do not change, and no  *)
(* run changes a kpi or insight row.                                       *)

IsEnsure(call) == call.tool = "ensureTables"

\* the schema ensureTables leaves when it completes
Ensured(cat) == EnsureTables(cat, Len(EnsureTablesStatements)).catalog

C17_EnsureTablesIdempotent ==
    [][ IsEnsure(LastCall') =>
          /\ UNCHANGED <<kpi, insight, insight_id_seq>>
          /\ LastCall'.ok => (catalog' = Ensured(catalog) /\ Ensured(catalog') = catalog')
          /\ Ensured(catalog) = catalog => catalog' = catalog
          /\ (calls # <<>> /\ IsEnsure(LastCall) /\ LastCall.ok) => catalog' = catalog ]_vars

\* a legacy kpi table was migrated, its row kept, and ensureTables ran again
C17_Witness ==
    /\ calls # <<>> /\ IsEnsure(LastCall) /\ LastCall.ok
    /\ exitCode = Some(0)
    /\ mastra
    /\ log = <<>>
    /\ catalog.kpi = LegacyKpiColumns \o <<"table_name", "columns">>
    /\ catalog.insight = InsightColumns
    /\ kpi = {LegacyKpi}

----------------------------------------------------------------------------
(* C18: the init-db script exits with code 0 exactly when ensureTables     *)
(* completed without error and with code 1 exactly when it raised; in the  *)
(* composition root a failing ensureTables is only logged, no process      *)
(* exits, and the Mastra instance is constructed and exported all the      *)
(* same.                                                                   *)

C18_ExitCodes ==
    [][ /\ InitDatabase =>
            /\ exitCode' = Some(0) <=> LastCall'.ok
            /\ exitCode' = Some(1) <=> ~LastCall'.ok
            /\ exitCode' \in {Some(0), Some(1)}
        /\ MastraStartup =>
            /\ mastra'
            /\ exitCode' = exitCode
            /\ ~LastCall'.ok <=> log' = <<"Failed to initialize database tables:">>
        /\ (exitCode' # exitCode) => InitDatabase ]_vars

\* the composition root came up although ensureTables had failed half-way
C18_Witness ==
    /\ mastra
    /\ calls # <<>> /\ IsEnsure(LastCall) /\ ~LastCall.ok
    /\ log = <<"Failed to initialize database tables:">>
    /\ exitCode = Some(1)
    /\ catalog.kpi = KpiColumns /\ catalog.insight = <<>>

----------------------------------------------------------------------------
(* C15: two runs that execute concurrently share no run state: a step of   *)
(* one run leaves the step data of the other run as it is.  They do share  *)
(* the tables, with no locking: every save leaves the row of its name as   *)
(* that save wrote it, whatever the other run saved before (so of two      *)
(* saves of one name the later one stays), and a run that fetched the      *)
(* KPIs executes the formula it fetched, whatever the table holds by then. *)

FirstSaved ==
    {calls[i].context : i \in {j \in 1..Len(calls) : calls[j].tool = "save-kpi"}}

RowIsSaved(rows, c) ==
    /\ Cardinality(RowsNamed(rows, c.name)) = 1
    /\ \A r \in RowsNamed(rows, c.name) :
        r.formula = Some(c.formula) /\ r.description = OrNull(c.description)

FirstRunSaves ==
    /\ Len(calls') = Len(calls) + 1
    /\ calls'[Len(calls')].tool = "save-kpi"

C15_RunsShareOnlyTheTables ==
    [][ /\ (other' = other \/ UNCHANGED runvars)
        /\ (other'.saved # other.saved) =>
                \A c \in other'.saved : RowIsSaved(kpi', c)
        /\ FirstRunSaves => RowIsSaved(kpi', calls'[Len(calls')].context)
        /\ (At("insight", "execute-kpi-query") /\ Len(calls') = Len(calls) + 1) =>
                calls'[Len(calls')].sent
                    = Get(inputData.kpiFormula) \o LimitClause(10) ]_vars

\* C15 as stated: each run leaves the rows, and gets the outputs, that it
\* would have alone
C15_AsStated ==
    /\ (wf = "simple" /\ status = "success") =>
            \A c \in FirstSaved : RowIsSaved(kpi, c)
    /\ other.status = "success" => \A c \in other.saved : RowIsSaved(kpi, c)
    /\ At("insight", "select-kpi") =>
            inputData.kpis = FetchKPIsTool([DB EXCEPT !.kpi = kpiAtStart]).kpis

\* both runs saved k1: the row is the one of the second run, which saved last
C15_Witness ==
    /\ wf = "simple" /\ status = "success"
    /\ other.status = "success"
    /\ \E c \in FirstSaved : c.name = W("k1") /\ c.formula = W(InsertCte)
    /\ \A c \in other.saved : c.name = W("k1") /\ RowIsSaved(kpi, c)
    /\ \E r \in kpi : r.name = W("k1") /\ r.formula = Some(W(SelectSales))

----------------------------------------------------------------------------
(* C21: round trip of KPI persistence.  After an upsert of a KPI with name *)
(* n, formula f, table t and column list c, fetch-all returns exactly one  *)
(* entry named n; its formula is f, its columns are the list c in the same *)
(* order (the empty list included) and absent when none was supplied, its  *)
(* table_name is t when t is a non-empty string and absent when t is ''    *)
(* or was not supplied; and the returned list is ordered by name.          *)

FetchedAfterUpsert ==
    /\ Len(calls) = 2
    /\ calls[1].tool \in UpsertTools
    /\ calls[2].tool \in FetchTools

Position(n) == CHOOSE i \in 1..Len(NameOrder) : NameOrder[i] = n

OrderedByName(kpis) ==
    \A i, j \in 1..Len(kpis) :
        i < j => Position(kpis[i].name) < Position(kpis[j].name)

\* the entries of a fetch-all result that carry the name n
EntriesNamed(kpis, n) == {i \in 1..Len(kpis) : kpis[i].name = n}

RoundTrip(c, kpis, table) ==
    /\ Cardinality(EntriesNamed(kpis, c.name)) = 1
    /\ \A i \in EntriesNamed(kpis, c.name) :
        /\ kpis[i].formula = Some(c.formula)
        /\ kpis[i].table_name = table
        /\ kpis[i].columns = c.columns
    /\ OrderedByName(kpis)

C21_RoundTrip ==
    FetchedAfterUpsert =>
        LET c == calls[1].context
        IN  RoundTrip(c, calls[2].kpis, IF c.table = Some(<<>>) THEN None ELSE c.table)

\* C21 as the claim states it: table_name is t for every t
C21_AsStated ==
    FetchedAfterUpsert =>
        RoundTrip(calls[1].context, calls[2].kpis, calls[1].context.table)

\* a KPI with two columns, one of them with quotes and a backslash in its
\* name, was saved and fetched back beside another KPI
C21_Witness ==
    /\ FetchedAfterUpsert
    /\ calls[1].context.columns = Some(<<QuotedColumn, AmountColumn>>)
    /\ calls[1].context.table = Some(SalesTable)
    /\ Len(calls[2].kpis) = 2
    /\ calls[1].context.name = W("k2")

----------------------------------------------------------------------------
(* C22: the index-based and the name-based KPI workflow resolve the SQL to *)
(* preview identically: for every combination of the use-AI flag, a        *)
(* present or absent sqlIntent and a present or absent manualSQL, both     *)
(* raise an error or both choose the same source, the SQL generated from   *)
(* the intent or the literal manual SQL.                                   *)

\* what a resolution comes to: an error, or the source and the SQL chosen
Resolution(o) ==
    IF o.kind = "throw" THEN [source |-> "error", sql |-> <<>>]
    ELSE IF o.calls # <<>> THEN [source |-> "generated", sql |-> o.value.sqlQuery]
    ELSE [source |-> "manual", sql |-> o.value.sqlQuery]

\* the flag, the intent and the manual SQL of d, given to the other workflow
AsDefineKPIResume(d) ==
    [kpiName |-> d.kpiName, kpiDescription |-> d.kpiDescription,
     useAI |-> d.useAIGeneration, sqlIntent |-> d.sqlIntent,
     manualSQL |-> d.manualSQL]

AsGenerateSQLInput(d) ==
    [selectedColumns |-> <<>>, selectedTables |-> <<SalesTable>>,
     kpiName |-> d.kpiName, kpiDescription |-> d.kpiDescription,
     useAIGeneration |-> d.useAI, sqlIntent |-> d.sqlIntent,
     manualSQL |-> d.manualSQL]

SalesInput == [tableName |-> SalesTable, columns |-> <<>>]

ResolvesAlike(generateInput, defineResume) ==
    \A llmSql \in GeneratedSql :
        Resolution(GenerateSQLStepExecute(generateInput, llmSql, DB))
            = Resolution(DefineKPIStepExecute(SalesInput, Some(defineResume), llmSql, DB))

\* the index-based run is about to resolve the SQL
IndexBasedResolves ==
    Executing /\ At("kpi", "generate-sql") /\ inputData.kpiName # <<>>

\* the name-based run is about to resolve the SQL
NameBasedResolves ==
    /\ Resumed /\ At("simple", "define-kpi")
    /\ Get(resumeData).kpiName # <<>>

C22_AsStated ==
    /\ IndexBasedResolves =>
            ResolvesAlike(inputData, AsDefineKPIResume(inputData))
    /\ NameBasedResolves =>
            ResolvesAlike(AsGenerateSQLInput(Get(resumeData)), Get(resumeData))

----------------------------------------------------------------------------
(* C23: save-insight / insertInsight inserts exactly one new insight row   *)
(* per call and never modifies an existing one; the inserted row stores    *)
(* every supplied field with the supplied value, alert_high and alert_low  *)
(* being the supplied numbers for every numeric value, 0 included, and     *)
(* stores null exactly for the optional fields that were not supplied.     *)

InsightSaved(call) == call.tool \in InsightSaveTools /\ call.ok

StoresSupplied(row, c) ==
    /\ row.name = c.name
    /\ row.formula = Some(c.formula)
    /\ row.description = c.description
    /\ row.kpi_name = c.kpi_name
    /\ row.schedule = c.schedule
    /\ row.exec_time = c.exec_time
    /\ row.alert_high = c.alert_high
    /\ row.alert_low = c.alert_low

C23_AsStated ==
    [][ InsightSaved(LastCall') =>
            /\ Len(insight') = Len(insight) + 1
            /\ \A i \in 1..Len(insight) : insight'[i] = insight[i]
            /\ StoresSupplied(insight'[Len(insight')], LastCall'.context) ]_vars

----------------------------------------------------------------------------
(* C24: liveness of the pipelines.  If every tool and LLM call returns and *)
(* the external actor answers each pause with resume data the paused step  *)
(* accepts, a run of each of the three workflows executes its steps in the *)
(* declared order, each step's output being the next step's input, and     *)
(* eventually completes with the last step's output, with two exceptions.  *)
(* An index-based run fails at generate-sql when the resume data that      *)
(* select-columns-details accepted carries neither an intent to generate   *)
(* from nor manual SQL.  An insight run paused at select-kpi after         *)
(* fetch-kpis returned no KPI stays paused: no resume data advances it.    *)
(* Every other pause can be advanced by some resume data.                  *)

Paused == status = "suspended"

\* the step just executed returned v as its output
OutputWas(v) == \E o \in Outcomes(resumeData) : o.kind = "output" /\ o.value = v

StepsInOrder ==
    /\ status # "idle" => wf' = wf
    /\ (status # "idle" /\ step' # step) =>
            /\ step' = step + 1
            /\ OutputWas(inputData')
    /\ (status # "success" /\ status' = "success") =>
            /\ step = Len(Steps(wf))
            /\ \E v \in result' : OutputWas(v)

\* generate-sql rejected what select-columns-details had accepted
NoSqlSource == At("kpi", "generate-sql") /\ Failed(SqlResolutionErrors)

RunEnds(otherwise) == status = "success" \/ Failed(ToolErrors) \/ otherwise

----------------------------------------------------------------------------
(* C25: whenever select-tables returns output, selectedTables has the      *)
(* length and order of the supplied indexes and every element is the       *)
(* listed table at that index, never undefined, for every array of numbers *)
(* the resume schema admits.                                               *)

SelectTablesReturned ==
    wf = "kpi" /\ step = 3 /\ status = "running" /\ resumed[2] # None

C25_AsStated ==
    SelectTablesReturned =>
        LET indexes == Get(resumed[2]).selectedTableIndexes
            selectedTables == inputData.selectedTables
        IN  /\ Len(selectedTables) = Len(indexes)
            /\ \A j \in 1..Len(indexes) :
                    /\ selectedTables[j] # None
                    /\ selectedTables[j] \in {Some(t) : t \in Range(ListTablesTool.tables)}

----------------------------------------------------------------------------
(* C26: metadata collected by a workflow reaches the persisted row: the    *)
(* kpiDescription supplied in a KPI workflow is the description of the     *)
(* saved KPI, and the insightDescription supplied at the select-kpi pause  *)
(* is the description of the inserted insight row.                         *)

\* the KPI row named by the resume data of step n carries its kpiDescription
KpiDescriptionStored(n) ==
    \E r \in kpi :
        /\ r.name = Get(resumed[n]).kpiName
        /\ r.description = Some(Get(resumed[n]).kpiDescription)

InsightDescriptionStored ==
    /\ insight # <<>>
    /\ insight[Len(insight)].name = Get(resumed[2]).insightName
    /\ insight[Len(insight)].description = Some(Get(resumed[2]).insightDescription)

C26_AsStated ==
    status = "success" =>
        /\ wf = "kpi" => KpiDescriptionStored(4)
        /\ wf = "simple" => KpiDescriptionStored(4)
        /\ wf = "insight" => InsightDescriptionStored

====
